---- MODULE Spec2Model ----
(***************************************************************************)
(* OPM-1560B serial-to-MQTT gateway: the serial reader and its byte-stream  *)
(* reassembler (serial.Reader), the binary frame parser (parser.Parse),     *)
(* the MQTT client (mqtt.Client) and the frame processing loop of main.     *)
(* Bytes are naturals 0..255; a []byte is a sequence of bytes.             *)
(***************************************************************************)
EXTENDS Integers, Sequences, FiniteSets, TLC

VARIABLES
    buffer,     \* Reader.buffer: accumulation buffer of the reassembler
    frameChan,  \* Reader.frameChan: frames emitted, oldest first
    chunks,     \* serial chunks still to be read and handed to handleData
    scen,       \* the stream under test: kind, frames, garbage, split
    pframe,     \* the frame handed to Parser.Parse
    presult,    \* what Parse returned: [err, rec]
    ppc,        \* position of the parser caller: "call" or "done"
    isConnected, \* Client.isConnected: the connection flag
    linkOpen,   \* paho client: the connection to the broker is open
    mu,         \* Client.mu: "free" or the task that holds it
    mpc,        \* main task: NewClient, waiting for the signal, Close
    rpc,        \* reconnectLoop goroutine: position in the loop
    cpc,        \* frame processing goroutine of main: position in the loop
    cw,         \* the connectWithRetry call in progress: [who, i, st]
    baseInt,    \* reconnectLoop: baseInt, in seconds
    curInt,     \* reconnectLoop: curInt, in seconds
    fails,      \* consecutive failed reconnect rounds, those before the
                \* last successful reconnect, and whether there was one:
                \* [now, before, reset]
    cur,        \* frame processing goroutine: the frame taken from the queue
    pres,       \* the last Publish call: message, client state, result
    sent,       \* what was handed to the paho client, oldest first
    onConn,     \* paho: the OnConnect handler is scheduled, not yet run
    canceled,   \* Client.ctx is cancelled
    handled,    \* frames the processing goroutine is done with, and how
    arrived,    \* frames the reader has put on the queue, oldest first
    acks,       \* tokens awaited by acknowledgment goroutines, and the log
    sConnected, \* Reader.isConnected: the state of the serial link
    port,       \* Reader.port: "nil", an "open" handle or a "closed" one
    smu,        \* Reader.mu: "free" or the task that holds it
    spc,        \* goroutine of Reader.Start: position in the loop
    smain,      \* main task towards the reader: NewReader, Start, Close
    sctx,       \* Reader.ctx is cancelled
    ow,         \* the openWithRetry call in progress: [who, i, st]
    chClosed,   \* frameChan is closed
    pending,    \* the frame handleData is sending, with its end position
    rdata,      \* bytes returned by the last readData
    sView       \* Reader.isConnected as the goroutine last saw it under a lock

readerVars == <<buffer, chunks, scen>>
parserVars == <<pframe, presult, ppc>>
mqttVars == <<isConnected, linkOpen, mu, mpc, rpc, cpc, cw, baseInt, curInt,
              fails,
              cur, pres, sent, onConn, canceled, handled, arrived, acks>>

serialVars == <<sConnected, port, smu, spc, smain, sctx, ow, chClosed,
                pending, rdata, sView>>

vars == <<buffer, frameChan, chunks, scen, pframe, presult, ppc,
          isConnected, linkOpen, mu, mpc, rpc, cpc, cw, baseInt, curInt, fails,
          cur, pres, sent, onConn, canceled, handled, arrived, acks,
          sConnected, port, smu, spc, smain, sctx, ow, chClosed, pending,
          rdata, sView>>

(***************************************************************************)
(* Bounds of the model                                                     *)
(***************************************************************************)
\* longest data segment of a generated frame (13 = the 16-byte fixtures,
\* 14 = the documented layout)
MaxDataLen == 14
\* longest run of garbage bytes fed before a frame
MaxGarbage == 17
\* most frames waiting in the frame queue of a modelled run
MaxQueue == 2
\* most consecutive failed reconnect rounds that are counted
MaxFails == 5
\* most reads of a feed that holds a frame header and never a frame tail
MaxFlood == 9
\* longest data segment handed to calcSum on its own
MaxSumLen == 260

(***************************************************************************)
(* Configuration (config.setHardwareDefaults)                              *)
(***************************************************************************)
FrameMinLen == 16
\* parser.frame_start and parser.frame_end of a configuration with markers
\* of two bytes: hexStrToBytes("AABB"), hexStrToBytes("5566")
WideStart == <<170, 187>>
WideEnd == <<85, 102>>
\* hexStrToBytes of GlobalConfig.Parser.FrameStart and FrameEnd: "AA" and
\* "55" unless the run is one with the two-byte markers configured
GetFrameStart == IF scen.kind = "wide" THEN WideStart ELSE <<170>>
GetFrameEnd == IF scen.kind = "wide" THEN WideEnd ELSE <<85>>
CheckTypeSum == "sum"
CheckType == "sum"

(***************************************************************************)
(* Slices                                                                  *)
(***************************************************************************)
\* Go's s[lo:hi] with 0-based lo (inclusive) and hi (exclusive)
Slice(s, lo, hi) == [i \in 1..(hi - lo) |-> s[lo + i]]

\* compareBytes(a, b)
compareBytes(a, b) ==
    /\ Len(a) = Len(b)
    /\ \A i \in 1..Len(a) : a[i] = b[i]

Min(S) == CHOOSE x \in S : \A y \in S : x <= y

(***************************************************************************)
(* serial.Reader.handleData                                                *)
(***************************************************************************)
\* step 1 of the loop: index of the first frame header, -1 when absent
findStart(buf) ==
    LET startLen == Len(GetFrameStart)
        hits == {i \in 0..(Len(buf) - startLen) :
                    compareBytes(Slice(buf, i, i + startLen), GetFrameStart)}
    IN IF hits = {} THEN -1 ELSE Min(hits)

findEnd_mut(buf, startIdx) ==
    LET endLen == Len(GetFrameEnd)
        hits == {i \in (startIdx + 1)..(Len(buf) - endLen) :
                    compareBytes(Slice(buf, i, i + endLen), GetFrameEnd)}
    IN IF hits = {} THEN -1 ELSE Min(hits) + endLen

\* step 3 of the loop: end position of the first frame tail at or after
\* startIdx + minFrameLen - endLen, -1 when absent
findEnd(buf, startIdx) ==
    LET endLen == Len(GetFrameEnd)
        hits == {i \in (startIdx + FrameMinLen - endLen)..(Len(buf) - endLen) :
                    compareBytes(Slice(buf, i, i + endLen), GetFrameEnd)}
    IN IF hits = {} THEN -1 ELSE Min(hits) + endLen

\* the extraction loop: buf is r.buffer, out the frames sent so far
RECURSIVE extractLoop(_, _)
extractLoop(buf, out) ==
    LET bufLen == Len(buf)
        startIdx == findStart(buf)
        endIdx == findEnd(buf, startIdx)
    IN IF bufLen < FrameMinLen THEN [buffer |-> buf, out |-> out]
       ELSE IF startIdx = -1 THEN [buffer |-> <<>>, out |-> out]
       ELSE IF bufLen - startIdx < FrameMinLen
            THEN [buffer |-> Slice(buf, startIdx, bufLen), out |-> out]
       ELSE IF endIdx = -1
            THEN [buffer |-> Slice(buf, startIdx, bufLen), out |-> out]
       ELSE extractLoop(Slice(buf, endIdx, bufLen),
                        Append(out, Slice(buf, startIdx, endIdx)))

\* handleData that sends the frames and cuts nothing off the buffer
handleData_mut(buf, data) ==
    [buffer |-> buf \o data, out |-> extractLoop(buf \o data, <<>>).out]

\* handleData(data): append, early return below minFrameLen, then the loop
handleData(buf, data) ==
    LET appended == buf \o data
    IN IF Len(appended) < FrameMinLen
       THEN [buffer |-> appended, out |-> <<>>]
       ELSE extractLoop(appended, <<>>)

(***************************************************************************)
(* mqtt.Client as constructed by NewClient, before it connects             *)
(***************************************************************************)
\* cfg.MQTT.ReconnectInt, in seconds
ReconnectInt == 2

NoFails == [now |-> 0, before |-> 0, reset |-> FALSE]
NoCall == [who |-> "none", i |-> 0, st |-> "none"]
NoPublish == [kind |-> "none", flag |-> FALSE, open |-> FALSE,
              err |-> "none", handed |-> 0]

\* the Client literal of NewClient: not connected, no goroutine started
ClientConstructed ==
    /\ isConnected = FALSE
    /\ linkOpen = FALSE
    /\ mu = "free"
    /\ cw = NoCall
    /\ baseInt = ReconnectInt
    /\ curInt = baseInt
    /\ fails = NoFails
    /\ cur = <<>>
    /\ pres = NoPublish
    /\ sent = <<>>
    /\ onConn = FALSE
    /\ canceled = FALSE
    /\ handled = <<>>
    /\ arrived = <<>>
    /\ acks = [pending |-> <<>>, log |-> <<>>]

\* the Reader literal of NewReader: no handle, not connected, no goroutine
ReaderConstructed ==
    /\ sConnected = FALSE
    /\ port = "nil"
    /\ smu = "free"
    /\ sctx = FALSE
    /\ ow = NoCall
    /\ chClosed = FALSE
    /\ pending = <<>>
    /\ rdata = <<>>
    /\ sView = FALSE

\* no serial port at all: the other components on their own
NoPort ==
    /\ ReaderConstructed
    /\ spc = "off"
    /\ smain = "off"

\* no client at all: the reassembler and the parser on their own
NoClient ==
    /\ ClientConstructed
    /\ mpc = "off"
    /\ rpc = "off"
    /\ cpc = "off"

(***************************************************************************)
(* Streams fed to the reassembler                                          *)
(***************************************************************************)
\* the mathematical sum of a byte sequence
RECURSIVE SumBytes(_)
SumBytes(s) == IF s = <<>> THEN 0 ELSE s[1] + SumBytes(Tail(s))

\* start || d || sum(d) mod 256 || end
MkFrame(d) == <<170>> \o d \o <<SumBytes(d) % 256>> \o <<85>>

ReaderBytes == {0, 1, 85, 170}
\* data segments: zero except one byte
ReaderData == {[i \in 1..n |-> IF i = p THEN v ELSE 0] :
                  n \in 13..MaxDataLen, p \in 1..MaxDataLen, v \in ReaderBytes}
ReaderFrames == {MkFrame(d) : d \in ReaderData}

\* garbage: n bytes without a frame header, constant but for the last byte
GarbageBytes == {0, 85}
Garbage == {[i \in 1..n |-> IF i = n THEN h ELSE g] :
               n \in 0..MaxGarbage, g \in GarbageBytes, h \in GarbageBytes}

NoFrame == <<>>

ScenTorn ==
    {[kind |-> "torn", F1 |-> F, F2 |-> NoFrame, G |-> <<>>,
      feed |-> <<Slice(F, 0, i), Slice(F, i, Len(F))>>] :
        F \in ReaderFrames, i \in 1..(MaxDataLen + 2)}

\* make([]byte, 128): the most bytes one read returns
ReadBufLen == 128

\* a header followed by bytes that are never a frame tail, read in full
\* chunks
FloodFeed(n) ==
    [k \in 1..n |->
        [i \in 1..ReadBufLen |-> IF k = 1 /\ i = 1 THEN 170 ELSE 0]]

\* a frame in the layout of the two-byte markers, its 14 data bytes zero,
\* and the garbage fed before it, cut in two at any place
WideFrame == WideStart \o [i \in 1..14 |-> 0] \o <<0>> \o WideEnd
WideGarbage == {[i \in 1..n |-> 0] : n \in 0..MaxGarbage}

Scenarios ==
    {[kind |-> "whole", F1 |-> F, F2 |-> NoFrame, G |-> <<>>,
      feed |-> <<F>>] : F \in ReaderFrames}
    \cup {s \in ScenTorn : Len(s.feed[2]) > 0}
    \cup {[kind |-> "sticky", F1 |-> Fa, F2 |-> Fb, G |-> <<>>,
           feed |-> <<Fa \o Fb>>] : Fa \in ReaderFrames, Fb \in ReaderFrames}
    \cup {[kind |-> "garbage", F1 |-> F, F2 |-> NoFrame, G |-> g,
           feed |-> <<g \o F>>] : F \in ReaderFrames, g \in Garbage}
    \cup {[kind |-> "garbage", F1 |-> F, F2 |-> NoFrame, G |-> g,
           feed |-> <<g, F>>] : F \in ReaderFrames, g \in Garbage \ {<<>>}}
    \cup {[kind |-> "flood", F1 |-> NoFrame, F2 |-> NoFrame, G |-> <<>>,
           feed |-> FloodFeed(MaxFlood)]}
    \cup UNION {{[kind |-> "wide", F1 |-> WideFrame, F2 |-> NoFrame, G |-> g,
                   feed |-> <<Slice(g \o WideFrame, 0, i),
                              Slice(g \o WideFrame, i, Len(g \o WideFrame))>>] :
                     i \in 1..(Len(g \o WideFrame) - 1)} : g \in WideGarbage}

NoResult == [err |-> "pending", rec |-> [nil |-> TRUE]]

InitReader ==
    /\ scen \in Scenarios
    /\ chunks = scen.feed
    /\ buffer = <<>>
    /\ frameChan = <<>>
    /\ pframe = <<>>
    /\ presult = NoResult
    /\ ppc = "idle"
    /\ NoClient
    /\ NoPort

\* the read loop hands one non-empty chunk to handleData
ReadChunk ==
    /\ chunks # <<>>
    /\ LET r == handleData(buffer, Head(chunks))
       IN /\ buffer' = r.buffer
          /\ frameChan' = frameChan \o r.out
    /\ chunks' = Tail(chunks)
    /\ UNCHANGED <<scen, pframe, presult, ppc>>
    /\ UNCHANGED mqttVars
    /\ UNCHANGED serialVars

NextReader == ReadChunk

SpecReader == InitReader /\ [][NextReader]_vars

(***************************************************************************)
(* Reassembler claims                                                      *)
(***************************************************************************)
\* C1: torn-frame reassembly. Feeding a valid frame F split in two at any
\* byte boundary emits exactly one frame, byte-identical to F.
C1_TornFrame ==
    (scen.kind = "torn" /\ chunks = <<>>) => frameChan = <<scen.F1>>

\* C2: sticky-frame reassembly. Feeding F1 || F2 in one chunk emits exactly
\* two frames, F1 then F2, each byte-identical to the original.
C2_StickyFrame ==
    (scen.kind = "sticky" /\ chunks = <<>>) => frameChan = <<scen.F1, scen.F2>>

\* C3: garbage resync. Feeding N bytes without a start marker and then a
\* valid frame F, in one chunk or in two, emits exactly one frame, F.
C3_GarbageResync ==
    (scen.kind = "garbage" /\ chunks = <<>>) => frameChan = <<scen.F1>>

(***************************************************************************)
(* models: serial frame and device data                                    *)
(***************************************************************************)
\* NewSerialFrame(frame, start, end, checkSum): the data segment is what
\* lies between the header and the checksum byte
NewSerialFrame(frame, start, end, checkSum) ==
    [Raw |-> frame,
     Data |-> Slice(frame, Len(start), Len(frame) - Len(end) - 1),
     CheckSum |-> checkSum]

DataStateNormal == "normal"
DataStateAbnormal == "abnormal"

\* NewOPM1560BDeviceData(deviceID, model): identity set, nothing decoded
NewOPM1560BDeviceData(deviceID, model) ==
    [DeviceID |-> deviceID, DeviceModel |-> model,
     PH |-> 0, SpecificGrav |-> 0,
     Protein |-> "", Glucose |-> "", Ketone |-> "", OccultBlood |-> "",
     Leukocyte |-> "", Erythrocyte |-> "", Urobilinogen |-> "",
     Bilirubin |-> "", Nitrite |-> "", VC |-> "",
     DataState |-> DataStateNormal, RawFrameHex |-> <<>>]

\* plausible ranges, in units of 1/10000: PH 4.5..8.0, gravity 1.005..1.030
PHMin == 45000
PHMax == 80000
SGMin == 10050
SGMax == 10300

\* CheckDataValid(): abnormal when a continuous field is out of range
CheckDataValid(d) ==
    IF d.PH < PHMin \/ d.PH > PHMax
       \/ d.SpecificGrav < SGMin \/ d.SpecificGrav > SGMax
    THEN [d EXCEPT !.DataState = DataStateAbnormal]
    ELSE [d EXCEPT !.DataState = DataStateNormal]

(***************************************************************************)
(* Formatting and parsing of numbers                                       *)
(***************************************************************************)
\* the decimal digits of n, most significant first
RECURSIVE DecDigits(_)
DecDigits(n) == IF n < 10 THEN <<n>> ELSE Append(DecDigits(n \div 10), n % 10)

\* fmt.Sprintf("%04d", n): decimal, zero-padded on the left to width 4
Sprintf04d(n) ==
    LET ds == DecDigits(n)
    IN [i \in 1..(4 - Len(ds)) |-> 0] \o ds

RECURSIVE DigitsValue(_)
DigitsValue(ds) ==
    IF ds = <<>> THEN 0
    ELSE DigitsValue(SubSeq(ds, 1, Len(ds) - 1)) * 10 + ds[Len(ds)]

RECURSIVE Pow10(_)
Pow10(k) == IF k = 0 THEN 1 ELSE 10 * Pow10(k - 1)

\* strconv.ParseFloat(int + "." + frac, 64) for digit strings with at most
\* four fraction digits; the value is in units of 1/10000
ParseFloat(int, frac) ==
    [ok |-> \A i \in 1..Len(int \o frac) : (int \o frac)[i] \in 0..9,
     val |-> DigitsValue(int) * 10000
             + DigitsValue(frac) * Pow10(4 - Len(frac))]

HexChars == <<"0", "1", "2", "3", "4", "5", "6", "7",
              "8", "9", "A", "B", "C", "D", "E", "F">>

\* strings.ToUpper(hex.EncodeToString(frame))
HexStr(frame) ==
    [i \in 1..(2 * Len(frame)) |->
        IF i % 2 = 1 THEN HexChars[(frame[(i + 1) \div 2] \div 16) + 1]
        ELSE HexChars[(frame[i \div 2] % 16) + 1]]

(***************************************************************************)
(* parser.Parser                                                           *)
(***************************************************************************)
DeviceID == "SN1234567890"
DeviceModel == "OPM-1560B"

\* the accumulator wrapping one short of 2^16
RECURSIVE calcSumAcc_mut(_, _)
calcSumAcc_mut(data, sum) ==
    IF data = <<>> THEN sum
    ELSE calcSumAcc_mut(Tail(data), (sum + data[1]) % 65535)

\* calcSum: a uint16 accumulator, then the low 8 bits
RECURSIVE calcSumAcc(_, _)
calcSumAcc(data, sum) ==
    IF data = <<>> THEN sum
    ELSE calcSumAcc(Tail(data), (sum + data[1]) % 65536)

\* calcSum with the mask left out
calcSum_mut(data) == calcSumAcc(data, 0)

calcSum(data) == calcSumAcc(data, 0) % 256

\* checkSumValid comparing only the low 7 bits
checkSumValid_mut(data, frameCheckSum) ==
    calcSum(data) % 128 = frameCheckSum % 128

checkSumValid(data, frameCheckSum) == calcSum(data) = frameCheckSum

\* parseGrade without the case for 5
parseGrade_mut(b) ==
    CASE b = 0 -> "-"
      [] b = 1 -> "+"
      [] b = 2 -> "+-"
      [] b = 3 -> "++"
      [] b = 4 -> "+++"
      [] OTHER -> "invalid"

\* parseGrade; "+-" stands for the plus-minus sign
parseGrade(b) ==
    CASE b = 0 -> "-"
      [] b = 1 -> "+"
      [] b = 2 -> "+-"
      [] b = 3 -> "++"
      [] b = 4 -> "+++"
      [] b = 5 -> "++++"
      [] OTHER -> "invalid"

\* the nitrite switch of extractDetectData
parseNitrite(b) ==
    CASE b = 0 -> "-"
      [] b = 1 -> "+"
      [] OTHER -> "invalid"

\* a 16-bit big-endian pair printed with %04d and split after one digit
decodePair(hi, lo) ==
    LET bcd == ((hi * 256) % 65536) + lo
        str == Sprintf04d(bcd)
    IN ParseFloat(SubSeq(str, 1, 1), SubSeq(str, 2, Len(str)))

\* the nil record returned with an error
NoRecord == [nil |-> TRUE]

\* extractDetectData(data); data[k + 1] is the byte at offset k
extractDetectData(data) ==
    LET deviceData == NewOPM1560BDeviceData(DeviceID, DeviceModel)
        ph == decodePair(data[1], data[2])
        sg == decodePair(data[12], data[13])
    IN IF Len(data) < 14 THEN [err |-> "ErrDataLen", rec |-> NoRecord]
       ELSE IF ~ph.ok THEN [err |-> "ErrParsePH", rec |-> NoRecord]
       ELSE IF ~sg.ok THEN [err |-> "ErrParseSG", rec |-> NoRecord]
       ELSE [err |-> "none",
             rec |-> [deviceData EXCEPT
                        !.PH = ph.val,
                        !.Protein = parseGrade(data[3]),
                        !.Glucose = parseGrade(data[4]),
                        !.Ketone = parseGrade(data[5]),
                        !.OccultBlood = parseGrade(data[6]),
                        !.Leukocyte = parseGrade(data[7]),
                        !.Erythrocyte = parseGrade(data[8]),
                        !.Urobilinogen = parseGrade(data[9]),
                        !.Bilirubin = parseGrade(data[10]),
                        !.VC = parseGrade(data[14]),
                        !.Nitrite = parseNitrite(data[11]),
                        !.SpecificGrav = sg.val]]

\* Parse with the checksum stage moved before the frame-tail check
Parse_mut(frame) ==
    LET startLen == Len(GetFrameStart)
        endLen == Len(GetFrameEnd)
        checkSum == frame[Len(frame) - endLen]
        serialFrame == NewSerialFrame(frame, GetFrameStart, GetFrameEnd, checkSum)
        ex == extractDetectData(serialFrame.Data)
    IN IF Len(frame) < FrameMinLen THEN [err |-> "ErrFrameLen", rec |-> NoRecord]
       ELSE IF ~compareBytes(Slice(frame, 0, startLen), GetFrameStart)
            THEN [err |-> "ErrFrameStart", rec |-> NoRecord]
       ELSE IF CheckType = CheckTypeSum
               /\ ~checkSumValid(serialFrame.Data, checkSum)
            THEN [err |-> "ErrCheckSum", rec |-> NoRecord]
       ELSE IF ~compareBytes(Slice(frame, Len(frame) - endLen, Len(frame)),
                             GetFrameEnd)
            THEN [err |-> "ErrFrameEnd", rec |-> NoRecord]
       ELSE IF ex.err # "none" THEN ex
       ELSE [err |-> "none",
             rec |-> CheckDataValid(
                        [ex.rec EXCEPT !.RawFrameHex = HexStr(frame)])]

\* Parse(frame): length, header, tail, checksum, extraction, classification
Parse(frame) ==
    LET startLen == Len(GetFrameStart)
        endLen == Len(GetFrameEnd)
        checkSum == frame[Len(frame) - endLen]
        serialFrame == NewSerialFrame(frame, GetFrameStart, GetFrameEnd, checkSum)
        ex == extractDetectData(serialFrame.Data)
    IN IF Len(frame) < FrameMinLen THEN [err |-> "ErrFrameLen", rec |-> NoRecord]
       ELSE IF ~compareBytes(Slice(frame, 0, startLen), GetFrameStart)
            THEN [err |-> "ErrFrameStart", rec |-> NoRecord]
       ELSE IF ~compareBytes(Slice(frame, Len(frame) - endLen, Len(frame)),
                             GetFrameEnd)
            THEN [err |-> "ErrFrameEnd", rec |-> NoRecord]
       ELSE IF CheckType = CheckTypeSum
               /\ ~checkSumValid(serialFrame.Data, checkSum)
            THEN [err |-> "ErrCheckSum", rec |-> NoRecord]
       ELSE IF ex.err # "none" THEN ex
       ELSE [err |-> "none",
             rec |-> CheckDataValid(
                        [ex.rec EXCEPT !.RawFrameHex = HexStr(frame)])]

(***************************************************************************)
(* Frames handed to the parser                                             *)
(***************************************************************************)
\* fixtures of the parser tests and of the hardware test sender
NormalFrame == <<170, 5, 32, 1, 0, 0, 0, 0, 0, 0, 0, 16, 16, 0, 41, 85>>
CheckSumErrorFrame == <<170, 5, 32, 1, 0, 0, 0, 0, 0, 0, 0, 16, 16, 0, 153, 85>>
FrameHeaderErrorFrame == <<187, 5, 32, 1, 0, 0, 0, 0, 0, 0, 0, 16, 16, 0, 41, 85>>
AbnormalDataFrame == <<170, 3, 0, 1, 0, 0, 0, 0, 0, 0, 0, 16, 16, 0, 12, 85>>
SenderAbnormalFrame == <<170, 3, 0, 2, 1, 0, 0, 0, 0, 0, 1, 16, 64, 1, 12, 85>>
Fixtures == {NormalFrame, CheckSumErrorFrame, FrameHeaderErrorFrame,
             AbnormalDataFrame, SenderAbnormalFrame}

\* byte pairs of the two packed-decimal fields
PHPairs == {<<5, 32>>, <<3, 0>>, <<6, 0>>, <<17, 148>>, <<23, 112>>, <<255, 255>>}
SGPairs == {<<16, 16>>, <<3, 242>>, <<16, 64>>}
\* values of an enumeration byte
GradeBytes == {0, 1, 2, 3, 4, 5, 6, 255}
\* 1-based indexes of the ten enumeration bytes in the data segment
EnumIdx == {3, 4, 5, 6, 7, 8, 9, 10, 11, 14}

\* a data segment of n bytes: the two pairs, one enumeration byte set to v
ParserData(n, ph, sg, p, v) ==
    [i \in 1..n |->
        CASE i = 1 -> ph[1]
          [] i = 2 -> ph[2]
          [] i = 12 -> sg[1]
          [] i = 13 -> sg[2]
          [] i = p -> v
          [] OTHER -> 0]

StartBytes == {170, 187}
EndBytes == {85, 102}
\* what is added to the right checksum: 0 keeps it right
CsDeltas == {0, 1, 128}

ParserFrames ==
    Fixtures \cup {<<>>} \cup
    {<<s>> \o d \o <<(SumBytes(d) + c) % 256>> \o <<e>> :
        s \in StartBytes, e \in EndBytes, c \in CsDeltas,
        d \in {ParserData(n, ph, sg, p, v) :
                  n \in 12..MaxDataLen, ph \in PHPairs, sg \in SGPairs,
                  p \in EnumIdx, v \in GradeBytes}}

NoScen == [kind |-> "none", F1 |-> NoFrame, F2 |-> NoFrame, G |-> <<>>,
           feed |-> <<>>]

InitParser ==
    /\ pframe \in ParserFrames
    /\ presult = NoResult
    /\ ppc = "call"
    /\ scen = NoScen
    /\ chunks = <<>>
    /\ buffer = <<>>
    /\ frameChan = <<>>
    /\ NoClient
    /\ NoPort

\* the caller hands the frame to Parse and keeps what it returns
ParseCall ==
    /\ ppc = "call"
    /\ presult' = Parse(pframe)
    /\ ppc' = "done"
    /\ UNCHANGED <<pframe, scen, chunks, buffer, frameChan>>
    /\ UNCHANGED mqttVars
    /\ UNCHANGED serialVars

NextParser == ParseCall

SpecParser == InitParser /\ [][NextParser]_vars

(***************************************************************************)
(* Parser claims                                                           *)
(***************************************************************************)
\* what the frame layout says of a frame, independently of Parse
HasStart(f) == Len(f) >= 1 /\ f[1] = 170
HasEnd(f) == Len(f) >= 1 /\ f[Len(f)] = 85
DataOf(f) == SubSeq(f, 2, Len(f) - 2)
CheckByte(f) == f[Len(f) - 1]
SumOK(f) == CheckByte(f) = SumBytes(DataOf(f)) % 256

\* start || d || sum(d) mod 256 || end with a 14-byte d
Built14(f) == Len(f) = 17 /\ HasStart(f) /\ HasEnd(f) /\ SumOK(f)

\* C4: checksum acceptance. A frame built from a 14-byte data segment and
\* its byte sum modulo 256 passes every stage: Parse returns a record and
\* no error.
C4_ChecksumAccept ==
    (ppc = "done" /\ Built14(pframe)) =>
        (presult.err = "none" /\ presult.rec # NoRecord)

C4_Witness ==
    /\ ppc = "done"
    /\ Built14(pframe)
    /\ SumBytes(DataOf(pframe)) >= 256
    /\ presult.err = "none"

C6_EndToEnd ==
    (ppc = "done" /\ pframe = NormalFrame) =>
        /\ presult.err = "none"
        /\ presult.rec # NoRecord
        /\ presult.rec.PH = 52000
        /\ presult.rec.Protein = "+"
        /\ presult.rec.SpecificGrav = 10100
        /\ presult.rec.DataState = DataStateNormal

\* C7: packed-decimal decode. Bytes 0x05,0x20 at data offsets 0-1 decode to
\* acidity 5.20 and bytes 0x10,0x10 at offsets 11-12 to gravity 1.010.
C7_PackedDecimal ==
    (ppc = "done" /\ presult.rec # NoRecord) =>
        /\ (DataOf(pframe)[1] = 5 /\ DataOf(pframe)[2] = 32)
              => presult.rec.PH = 52000
        /\ (DataOf(pframe)[12] = 16 /\ DataOf(pframe)[13] = 16)
              => presult.rec.SpecificGrav = 10100

\* the first failing stage of a frame, in the order of the claim
FirstFailure(f) ==
    IF Len(f) < FrameMinLen THEN "ErrFrameLen"
    ELSE IF ~HasStart(f) THEN "ErrFrameStart"
    ELSE IF ~HasEnd(f) THEN "ErrFrameEnd"
    ELSE IF ~SumOK(f) THEN "ErrCheckSum"
    ELSE IF Len(DataOf(f)) < 14 THEN "ErrDataLen"
    ELSE "none"

Grades == <<"-", "+", "+-", "++", "+++", "++++">>
GradeOf(b) == IF b \in 0..5 THEN Grades[b + 1] ELSE "invalid"
BinaryOf(b) == IF b = 0 THEN "-" ELSE IF b = 1 THEN "+" ELSE "invalid"

\* C9: enumeration degradation. A frame that passes the five stages gives a
\* record whatever its enumeration bytes: each grade byte in 0..5 maps to
\* its grade and any other to "invalid", for that field only; the binary
\* field maps 0 and 1 and gives "invalid" otherwise.
C9_EnumDegrade ==
    (ppc = "done" /\ FirstFailure(pframe) = "none") =>
        /\ presult.rec # NoRecord
        /\ LET d == DataOf(pframe)
               r == presult.rec
           IN /\ r.Protein = GradeOf(d[3])
              /\ r.Glucose = GradeOf(d[4])
              /\ r.Ketone = GradeOf(d[5])
              /\ r.OccultBlood = GradeOf(d[6])
              /\ r.Leukocyte = GradeOf(d[7])
              /\ r.Erythrocyte = GradeOf(d[8])
              /\ r.Urobilinogen = GradeOf(d[9])
              /\ r.Bilirubin = GradeOf(d[10])
              /\ r.Nitrite = BinaryOf(d[11])
              /\ r.VC = GradeOf(d[14])

C9_Witness ==
    /\ ppc = "done"
    /\ FirstFailure(pframe) = "none"
    /\ DataOf(pframe)[6] = 255
    /\ presult.rec # NoRecord
    /\ presult.rec.OccultBlood = "invalid"
    /\ presult.rec.Protein = "-"

\* C10: range classification. A record is abnormal exactly when its acidity
\* or its specific gravity is out of range; acidity bytes encoding 3.00
\* give abnormal, acidity bytes encoding 6.00 with gravity bytes encoding
\* 1.010 give normal, whatever the enumeration bytes.
C10_RangeClass ==
    (ppc = "done" /\ presult.rec # NoRecord) =>
        LET d == DataOf(pframe)
            r == presult.rec
        IN /\ (r.DataState = DataStateAbnormal) <=>
                  (r.PH < PHMin \/ r.PH > PHMax
                   \/ r.SpecificGrav < SGMin \/ r.SpecificGrav > SGMax)
           /\ r.DataState \in {DataStateNormal, DataStateAbnormal}
           /\ (d[1] = 3 /\ d[2] = 0) => r.DataState = DataStateAbnormal
           /\ (d[1] = 6 /\ d[2] = 0 /\ d[12] = 16 /\ d[13] = 16)
                 => r.DataState = DataStateNormal


(***************************************************************************)
(* models: the publish envelope                                            *)
(***************************************************************************)
MQTTMsgTypeData == "data"
MQTTMsgTypeState == "state"
DeviceStateOnline == "online"
DeviceStateOffline == "offline"
EnvelopeVersion == "v1.0"

\* report_time is the clock at construction; the clock is not modelled
NewMQTTMessage(deviceID, model, msgType, content) ==
    [DeviceID |-> deviceID, DeviceModel |-> model, MsgType |-> msgType,
     Content |-> content, Version |-> EnvelopeVersion]

\* the wire object, as its members in order
ToJSON(m) ==
    << <<"device_id", m.DeviceID>>, <<"device_model", m.DeviceModel>>,
       <<"msg_type", m.MsgType>>, <<"content", m.Content>>,
       <<"version", m.Version>> >>

(***************************************************************************)
(* mqtt.Client: topics and Publish                                         *)
(***************************************************************************)
TopicPrefix == "opm1560b/urine/analyzer"
\* cfg.MQTT.QoS and cfg.MQTT.WillQoS
QoS == 1
WillQoS == 1
WillRetain == TRUE

\* fmt.Sprintf("%s/%s/data", prefix, deviceID), as its three segments
topicData == <<TopicPrefix, DeviceID, "data">>
\* cfg.MQTT.WillTopic, the default of the configuration
WillTopic == <<TopicPrefix, DeviceID, "state">>
topicState == WillTopic

\* the result of Publish when nothing is handed to the paho client
Refused(e) == [err |-> e, handed |-> <<>>]

\* the switch of Publish on the message kind, swapped
PublishTopic_mut(msgType) ==
    IF msgType = MQTTMsgTypeData THEN <<TopicPrefix, DeviceID, "state">>
    ELSE IF msgType = MQTTMsgTypeState THEN <<TopicPrefix, DeviceID, "data">>
    ELSE <<>>

\* the switch of Publish on the message kind; <<>> is the default branch
PublishTopic(msgType) ==
    IF msgType = MQTTMsgTypeData THEN <<TopicPrefix, DeviceID, "data">>
    ELSE IF msgType = MQTTMsgTypeState THEN <<TopicPrefix, DeviceID, "state">>
    ELSE <<>>

\* Publish without the test of the connection
Publish_mut(clientNil, flag, open, mqttMsg) ==
    IF PublishTopic(mqttMsg.MsgType) = <<>> THEN Refused("ErrMsgType")
    ELSE [err |-> "none",
          handed |-> << [topic |-> PublishTopic(mqttMsg.MsgType), qos |-> QoS,
                         retained |-> FALSE, payload |-> ToJSON(mqttMsg),
                         open |-> open] >>]

\* Publish, between Lock and Unlock: what it returns and what it hands to
\* client.Publish.  flag is c.isConnected, open is c.client.IsConnectionOpen()
Publish(clientNil, flag, open, mqttMsg) ==
    IF clientNil THEN Refused("ErrClientNil")
    ELSE IF (~flag) \/ open THEN Refused("ErrNotConnected")
    ELSE IF PublishTopic(mqttMsg.MsgType) = <<>> THEN Refused("ErrMsgType")
    ELSE [err |-> "none",
          handed |-> << [topic |-> PublishTopic(mqttMsg.MsgType), qos |-> QoS,
                         retained |-> FALSE, payload |-> ToJSON(mqttMsg),
                         open |-> open] >>]

\* the effect of one Publish call on the client and on the paho client:
\* the message is handed over and a goroutine waits for its token
PublishEffect(mqttMsg) ==
    LET r == Publish(FALSE, isConnected, linkOpen, mqttMsg) IN
    /\ pres' = [kind |-> mqttMsg.MsgType, flag |-> isConnected,
                open |-> linkOpen, err |-> r.err, handed |-> Len(r.handed)]
    /\ sent' = sent \o r.handed
    /\ acks' = [acks EXCEPT !.pending = @ \o r.handed]

\* paho Token.Wait: blocks until the token is complete, then true
TokenWait == TRUE

\* the goroutine started by Publish: tk.Wait() returns true once the token
\* is complete, with or without an error, and the outcome is logged
AckWait ==
    /\ acks.pending # <<>>
    /\ \E delivered \in IF Head(acks.pending).open THEN BOOLEAN ELSE {FALSE} :
          acks' = [pending |-> Tail(acks.pending),
                   log |-> Append(acks.log,
                                  [delivered |-> delivered,
                                   line |-> IF TokenWait = FALSE THEN "ERROR"
                                            ELSE "INFO"])]
    /\ UNCHANGED <<isConnected, linkOpen, mu, mpc, rpc, cpc, cw, baseInt, curInt,
                   fails, cur, pres, sent, onConn, canceled, handled>>
    /\ UNCHANGED <<frameChan, arrived, readerVars, parserVars, serialVars>>


(***************************************************************************)
(* Publish on its own: one call on a client in a state a caller can see    *)
(***************************************************************************)
\* frames whose records are published: 14 data bytes, right checksum
PublishFrames ==
    {<<170>> \o d \o <<SumBytes(d) % 256>> \o <<85>> :
        d \in {ParserData(14, ph, sg, 3, v) :
                  ph \in PHPairs, sg \in SGPairs, v \in GradeBytes}}

\* message kinds no branch of Publish knows
OtherKinds == {"", "cmd"}

Messages ==
    {NewMQTTMessage(DeviceID, DeviceModel, MQTTMsgTypeData, Parse(f).rec) :
        f \in {g \in PublishFrames : Parse(g).err = "none"}}
    \cup {NewMQTTMessage(DeviceID, DeviceModel, MQTTMsgTypeState, st) :
        st \in {DeviceStateOnline, DeviceStateOffline}}
    \cup {NewMQTTMessage(DeviceID, DeviceModel, k, st) :
        k \in OtherKinds, st \in {DeviceStateOnline, "x"}}

\* flag and transport as Publish can find them under the lock: connected,
\* connection lost with the flag still set, not connected
ClientStates == {<<TRUE, TRUE>>, <<TRUE, FALSE>>, <<FALSE, FALSE>>}

InitPublish ==
    /\ \E c \in ClientStates :
          /\ isConnected = c[1]
          /\ linkOpen = c[2]
    /\ mu = "free"
    /\ cw = NoCall
    /\ baseInt = ReconnectInt
    /\ curInt = baseInt
    /\ fails = NoFails
    /\ cur = <<>>
    /\ pres = NoPublish
    /\ sent = <<>>
    /\ onConn = FALSE
    /\ canceled = FALSE
    /\ handled = <<>>
    /\ arrived = <<>>
    /\ acks = [pending |-> <<>>, log |-> <<>>]
    /\ mpc = "api"
    /\ rpc = "off"
    /\ cpc = "off"
    /\ frameChan = <<>>
    /\ buffer = <<>>
    /\ chunks = <<>>
    /\ scen = NoScen
    /\ pframe = <<>>
    /\ presult = NoResult
    /\ ppc = "idle"
    /\ NoPort

\* a caller publishes one message
PublishCall ==
    /\ mpc = "api"
    /\ mu = "free"
    /\ pres = NoPublish
    /\ \E m \in Messages : PublishEffect(m)
    /\ UNCHANGED <<isConnected, linkOpen, mu, mpc, rpc, cpc, cw, baseInt, curInt,
                   fails, cur, onConn, canceled, handled>>
    /\ UNCHANGED <<frameChan, arrived, readerVars, parserVars, serialVars>>

NextPublish == PublishCall \/ AckWait

SpecPublish == InitPublish /\ [][NextPublish]_vars

\* C18: the topic a message is handed over with is fixed by its kind alone:
\* data goes to <prefix>/<device_id>/data, state to <prefix>/<device_id>/state,
\* and a message of any other kind is refused with nothing handed over
C18_TopicRouting ==
    /\ \A i \in 1..Len(sent) :
          LET k == sent[i].payload[3][2] IN
          /\ k \in {"data", "state"}
          /\ sent[i].topic = <<TopicPrefix, DeviceID, k>>
    /\ (pres.kind \notin {"none", "data", "state"}) =>
          (pres.err # "none" /\ pres.handed = 0 /\ sent = <<>>)

\* a data message was handed over, on the data topic
C18_Witness ==
    /\ pres.kind = "data"
    /\ pres.handed = 1
    /\ Len(sent) = 1
    /\ sent[1].topic = <<TopicPrefix, DeviceID, "data">>


(***************************************************************************)
(* mqtt.Client: connecting, the paho handlers, the reconnect loop          *)
(***************************************************************************)
\* connectWithRetry: retryCnt
retryCnt == 3
\* reconnectLoop: maxInt is baseInt times this
MaxIntFactor == 10

clientVars == <<isConnected, linkOpen, mu, mpc, rpc, cw, baseInt, curInt,
                fails, onConn, canceled>>
coordVars == <<cpc, cur, handled>>
publishVars == <<pres, sent, acks>>
otherVars == <<buffer, chunks, scen, pframe, presult, ppc, serialVars>>
queueVars == <<frameChan, arrived>>

\* rptOnlineState reporting the offline state
rptOnlineState_mut(open) ==
    [topic |-> topicState, qos |-> WillQoS, retained |-> WillRetain,
     payload |-> ToJSON(NewMQTTMessage(DeviceID, DeviceModel,
                                       MQTTMsgTypeState, DeviceStateOffline)),
     open |-> open]

\* rptOnlineState: what the OnConnect handler hands to the paho client
rptOnlineState(open) ==
    [topic |-> topicState, qos |-> WillQoS, retained |-> WillRetain,
     payload |-> ToJSON(NewMQTTMessage(DeviceID, DeviceModel,
                                       MQTTMsgTypeState, DeviceStateOnline)),
     open |-> open]

\* one client.Connect() of connectWithRetry, with the lock held.  On success
\* the flag is set and the call returns nil: NewClient then starts the
\* reconnect loop and main starts the frame processing goroutine; the
\* reconnect loop goes on after its call.  paho schedules the OnConnect
\* handler.
ConnectTry ==
    /\ cw.st = "try"
    /\ \E ok \in BOOLEAN :
          IF ok
          THEN /\ linkOpen' = TRUE
               /\ onConn' = TRUE
               /\ isConnected' = TRUE
               /\ mu' = "free"
               /\ cw' = NoCall
               /\ IF cw.who = "main"
                  THEN /\ mpc' = "run"
                       /\ rpc' = "check"
                       /\ cpc' = "recv"
                  ELSE /\ rpc' = "reset"
                       /\ UNCHANGED <<mpc, cpc>>
          ELSE /\ cw' = [cw EXCEPT !.st = "sleep"]
               /\ UNCHANGED <<linkOpen, onConn, isConnected, mu, mpc, rpc,
                              cpc>>
    /\ UNCHANGED <<baseInt, curInt, fails, canceled, cur, handled, queueVars>>
    /\ UNCHANGED <<publishVars, otherVars>>

\* time.Sleep(retryInt) of connectWithRetry after a failed Connect, with the
\* lock held; after the last attempt the call returns the error: NewClient
\* fails and main exits, the reconnect loop backs off
ConnectSleep ==
    /\ cw.st = "sleep"
    /\ IF cw.i < retryCnt
       THEN /\ cw' = [cw EXCEPT !.i = @ + 1, !.st = "try"]
            /\ UNCHANGED <<mu, mpc, rpc>>
       ELSE /\ cw' = NoCall
            /\ mu' = "free"
            /\ IF cw.who = "main"
               THEN /\ mpc' = "fatal"
                    /\ UNCHANGED rpc
               ELSE /\ rpc' = "failed"
                    /\ UNCHANGED mpc
    /\ UNCHANGED <<isConnected, linkOpen, baseInt, curInt, fails, onConn, canceled>>
    /\ UNCHANGED <<coordVars, publishVars, otherVars, queueVars>>

\* the OnConnect handler: logs and reports the online state
OnConnect ==
    /\ onConn
    /\ onConn' = FALSE
    /\ sent' = Append(sent, rptOnlineState(linkOpen))
    /\ UNCHANGED <<isConnected, linkOpen, mu, mpc, rpc, cw, baseInt, curInt, fails,
                   canceled, pres, acks>>
    /\ UNCHANGED <<coordVars, otherVars, queueVars>>

\* the connection to the broker is lost; AutoReconnect is off and the
\* ConnectionLost handler writes a log line
ConnectionLost ==
    /\ linkOpen
    /\ linkOpen' = FALSE
    /\ UNCHANGED <<isConnected, mu, mpc, rpc, cw, baseInt, curInt, fails, onConn,
                   canceled>>
    /\ UNCHANGED <<coordVars, publishVars, otherVars, queueVars>>

\* reconnectLoop, top of the loop: return if the context is cancelled, else
\* read the flag under the lock
LoopCheck ==
    /\ rpc = "check"
    /\ IF canceled
       THEN rpc' = "exit"
       ELSE /\ mu = "free"
            /\ rpc' = IF ~isConnected THEN "connect" ELSE "sleep"
    /\ UNCHANGED <<isConnected, linkOpen, mu, mpc, cw, baseInt, curInt, fails, onConn,
                   canceled>>
    /\ UNCHANGED <<coordVars, publishVars, otherVars, queueVars>>

\* reconnectLoop: time.Sleep(baseInt) at the end of a round
LoopSleep ==
    /\ rpc = "sleep"
    /\ rpc' = "check"
    /\ UNCHANGED <<isConnected, linkOpen, mu, mpc, cw, baseInt, curInt, fails, onConn,
                   canceled>>
    /\ UNCHANGED <<coordVars, publishVars, otherVars, queueVars>>


(***************************************************************************)
(* main: the frame processing goroutine and the shutdown of the client     *)
(***************************************************************************)
\* frames the reader puts on the queue: one that Parse accepts, one that it
\* rejects
GoodFrame ==
    <<170>> \o ParserData(14, <<5, 32>>, <<16, 16>>, 3, 1)
            \o <<SumBytes(ParserData(14, <<5, 32>>, <<16, 16>>, 3, 1)) % 256>>
            \o <<85>>
QueueFrames == {GoodFrame, CheckSumErrorFrame}

\* the reader, started by main after NewClient, puts a frame on the queue
FrameArrives ==
    /\ mpc = "run"
    /\ cpc # "off"
    /\ Len(arrived) < MaxQueue
    /\ \E f \in QueueFrames :
          /\ frameChan' = Append(frameChan, f)
          /\ arrived' = Append(arrived, f)
    /\ UNCHANGED <<clientVars, coordVars, publishVars, otherVars>>

Done(how) == Append(handled, [frame |-> cur, how |-> how])

\* the receive taking the newest frame of the queue
CoordRecv_mut ==
    /\ cpc = "recv"
    /\ frameChan # <<>>
    /\ cur' = frameChan[Len(frameChan)]
    /\ frameChan' = SubSeq(frameChan, 1, Len(frameChan) - 1)
    /\ cpc' = "isconn"
    /\ UNCHANGED <<handled, arrived, clientVars, publishVars, otherVars>>

\* for frame := range frameChan
CoordRecv ==
    /\ cpc = "recv"
    /\ frameChan # <<>>
    /\ cur' = Head(frameChan)
    /\ frameChan' = Tail(frameChan)
    /\ cpc' = "isconn"
    /\ UNCHANGED <<handled, arrived, clientVars, publishVars, otherVars>>

\* the IsConnected step going on to decode a frame when not connected
CoordIsConnected_mut ==
    /\ cpc = "isconn"
    /\ mu = "free"
    /\ cpc' = "parse"
    /\ UNCHANGED <<handled, cur>>
    /\ UNCHANGED <<clientVars, publishVars, otherVars, queueVars>>

\* if !mqttClient.IsConnected() { continue }: IsConnected reads the flag
\* under the lock
CoordIsConnected ==
    /\ cpc = "isconn"
    /\ mu = "free"
    /\ IF ~isConnected
       THEN /\ handled' = Done("dropped")
            /\ cur' = <<>>
            /\ cpc' = "recv"
       ELSE /\ cpc' = "parse"
            /\ UNCHANGED <<handled, cur>>
    /\ UNCHANGED <<clientVars, publishVars, otherVars, queueVars>>

\* the Parse step leaving the loop on an error
CoordParse_mut ==
    /\ cpc = "parse"
    /\ IF Parse(cur).err # "none"
       THEN /\ handled' = Done("decode_error")
            /\ cur' = <<>>
            /\ cpc' = "exit"
       ELSE /\ cpc' = "publish"
            /\ UNCHANGED <<handled, cur>>
    /\ UNCHANGED <<clientVars, publishVars, otherVars, queueVars>>

\* deviceData, err := opmParser.Parse(frame); on an error log and continue
CoordParse ==
    /\ cpc = "parse"
    /\ IF Parse(cur).err # "none"
       THEN /\ handled' = Done("decode_error")
            /\ cur' = <<>>
            /\ cpc' = "recv"
       ELSE /\ cpc' = "publish"
            /\ UNCHANGED <<handled, cur>>
    /\ UNCHANGED <<clientVars, publishVars, otherVars, queueVars>>

\* mqttClient.Publish(mqttMsg) of the record; on an error log and continue
CoordPublish ==
    /\ cpc = "publish"
    /\ mu = "free"
    /\ PublishEffect(NewMQTTMessage(DeviceID, DeviceModel, MQTTMsgTypeData,
                                    Parse(cur).rec))
    /\ handled' = Done(IF pres'.err # "none" THEN "publish_error"
                       ELSE "published")
    /\ cur' = <<>>
    /\ cpc' = "recv"
    /\ UNCHANGED <<clientVars, otherVars, queueVars>>

\* main, after the signal: mqttClient.Close() takes the lock
CloseLock ==
    /\ mpc = "run"
    /\ mu = "free"
    /\ mu' = "main"
    /\ mpc' = "close_held"
    /\ UNCHANGED <<isConnected, linkOpen, rpc, cw, baseInt, curInt, fails, onConn,
                   canceled>>
    /\ UNCHANGED <<coordVars, publishVars, otherVars, queueVars>>

\* Close with the lock held: when connected it builds the offline message
\* and calls m.Publish, whose first statement locks the same mutex; else it
\* cancels the context and returns
CloseBody ==
    /\ mpc = "close_held"
    /\ IF isConnected
       THEN /\ mpc' = "close_publish"
            /\ UNCHANGED <<mu, canceled>>
       ELSE /\ canceled' = TRUE
            /\ mu' = "free"
            /\ mpc' = "closed"
    /\ UNCHANGED <<isConnected, linkOpen, rpc, cw, baseInt, curInt, fails, onConn>>
    /\ UNCHANGED <<coordVars, publishVars, otherVars, queueVars>>

\* Close once its nested Publish has the lock: the offline message, then
\* Disconnect, the flag, the cancel.  The lock is held by Close itself, so
\* no behaviour takes this step; it is not part of any next-state relation
CloseResume ==
    /\ mpc = "close_publish"
    /\ mu = "free"
    /\ PublishEffect(NewMQTTMessage(DeviceID, DeviceModel, MQTTMsgTypeState,
                                    DeviceStateOffline))
    /\ linkOpen' = FALSE
    /\ isConnected' = FALSE
    /\ canceled' = TRUE
    /\ mpc' = "closed"
    /\ UNCHANGED <<mu, rpc, cw, baseInt, curInt, fails, onConn>>
    /\ UNCHANGED <<coordVars, otherVars, queueVars>>

(***************************************************************************)
(* The client as main runs it                                              *)
(***************************************************************************)
\* main calls NewClient: connectWithRetry has the lock, first Connect ahead
InitMqtt ==
    /\ isConnected = FALSE
    /\ linkOpen = FALSE
    /\ mu = "main"
    /\ cw = [who |-> "main", i |-> 1, st |-> "try"]
    /\ baseInt = ReconnectInt
    /\ curInt = baseInt
    /\ fails = NoFails
    /\ cur = <<>>
    /\ pres = NoPublish
    /\ sent = <<>>
    /\ onConn = FALSE
    /\ canceled = FALSE
    /\ handled = <<>>
    /\ arrived = <<>>
    /\ acks = [pending |-> <<>>, log |-> <<>>]
    /\ mpc = "new"
    /\ rpc = "off"
    /\ cpc = "off"
    /\ frameChan = <<>>
    /\ buffer = <<>>
    /\ chunks = <<>>
    /\ scen = NoScen
    /\ pframe = <<>>
    /\ presult = NoResult
    /\ ppc = "idle"
    /\ NoPort

NextMqtt ==
    \/ ConnectTry
    \/ ConnectSleep
    \/ OnConnect
    \/ ConnectionLost
    \/ LoopCheck
    \/ LoopSleep
    \/ FrameArrives
    \/ CoordRecv
    \/ CoordIsConnected
    \/ CoordParse
    \/ CoordPublish
    \/ AckWait
    \/ CloseLock
    \/ CloseBody

SpecMqtt == InitMqtt /\ [][NextMqtt]_vars

\* C11: a Publish of a data or state message made while the client is
\* initialized, the flag is set and the transport connection is open hands
\* the payload to the transport exactly once and returns no error
C11_PublishConnected ==
    (pres.kind \in {"data", "state"} /\ pres.flag /\ pres.open) =>
        (pres.err = "none" /\ pres.handed = 1)


\* C12: a Close called while the link is connected goes on to hand the
\* offline state message to the transport before it disconnects, and a Close
\* that has returned leaves the flag false
C12_GracefulShutdown ==
    /\ mpc = "close_publish" => ENABLED CloseResume
    /\ mpc = "closed" => ~isConnected

\* C13: once the connection to the broker is lost, the round of the
\* reconnect loop that follows finds the client disconnected and goes to a
\* new connect attempt
C13_LossReconnect ==
    [][(rpc = "check" /\ rpc' # "check" /\ ~canceled /\ ~linkOpen) =>
          (~isConnected /\ rpc' = "connect")]_vars

\* an entry of the transport log that is the online state on the status topic
IsOnline(e) ==
    /\ e.topic = <<TopicPrefix, DeviceID, "state">>
    /\ e.payload[3][2] = "state"
    /\ e.payload[4][2] = "online"

RECURSIVE FramesOf(_)
FramesOf(h) == IF h = <<>> THEN <<>> ELSE <<Head(h).frame>> \o FramesOf(Tail(h))

\* C20: a decode error or a publish error on a frame does not stop the frame
\* processing loop: the loop is never left, no frame is skipped, and a frame
\* waiting on the queue can be taken as soon as the loop is back at its head
C20_PipelineContinues ==
    /\ cpc \in {"off", "recv", "isconn", "parse", "publish"}
    /\ FramesOf(handled) \o (IF cur = <<>> THEN <<>> ELSE <<cur>>) \o frameChan
          = arrived
    /\ (cpc = "recv" /\ frameChan # <<>>) => ENABLED CoordRecv
    /\ cur = <<>> <=> cpc \in {"off", "recv"}

\* a frame failed to decode, the next one was still taken and failed to
\* publish, and the loop is back at its head
C20_Witness ==
    /\ Len(handled) = 2
    /\ handled[1].how = "decode_error"
    /\ handled[2].how = "publish_error"
    /\ cpc = "recv"


(***************************************************************************)
(* The reconnect branch of reconnectLoop                                   *)
(***************************************************************************)
min(a, b) == IF a < b THEN a ELSE b

\* the doubling without the ceiling
NextInterval_mut(c, b) == c * 2

\* curInt after a failed round: min(curInt*2, maxInt), maxInt = baseInt * 10
NextInterval(c, b) == min(c * 2, b * MaxIntFactor)

\* !connected: the loop calls connectWithRetry, which takes the lock
LoopConnect ==
    /\ rpc = "connect"
    /\ mu = "free"
    /\ mu' = "loop"
    /\ cw' = [who |-> "loop", i |-> 1, st |-> "try"]
    /\ rpc' = "connecting"
    /\ UNCHANGED <<isConnected, linkOpen, mpc, baseInt, curInt, fails, onConn,
                   canceled>>
    /\ UNCHANGED <<coordVars, publishVars, otherVars, queueVars>>

\* connectWithRetry returned an error: the interval is doubled up to maxInt
\* and slept
LoopBackoff ==
    /\ rpc = "failed"
    /\ fails.now < MaxFails
    /\ curInt' = NextInterval(curInt, baseInt)
    /\ fails' = [fails EXCEPT !.now = @ + 1, !.reset = FALSE]
    /\ rpc' = "backoff"
    /\ UNCHANGED <<isConnected, linkOpen, mu, mpc, cw, baseInt, onConn,
                   canceled>>
    /\ UNCHANGED <<coordVars, publishVars, otherVars, queueVars>>

\* time.Sleep(curInt) is over: continue
LoopWake ==
    /\ rpc = "backoff"
    /\ rpc' = "check"
    /\ UNCHANGED <<isConnected, linkOpen, mu, mpc, cw, baseInt, curInt, fails,
                   onConn, canceled>>
    /\ UNCHANGED <<coordVars, publishVars, otherVars, queueVars>>

\* the step after a successful reconnect that keeps the interval
LoopReset_mut ==
    /\ rpc = "reset"
    /\ mu = "free"
    /\ UNCHANGED curInt
    /\ isConnected' = TRUE
    /\ fails' = [now |-> 0, before |-> fails.now, reset |-> TRUE]
    /\ rpc' = "sleep"
    /\ UNCHANGED <<linkOpen, mu, mpc, cw, baseInt, onConn, canceled>>
    /\ UNCHANGED <<coordVars, publishVars, otherVars, queueVars>>

\* connectWithRetry returned nil: the interval is reset and the flag is set
\* under the lock
LoopReset ==
    /\ rpc = "reset"
    /\ mu = "free"
    /\ curInt' = baseInt
    /\ isConnected' = TRUE
    /\ fails' = [now |-> 0, before |-> fails.now, reset |-> TRUE]
    /\ rpc' = "sleep"
    /\ UNCHANGED <<linkOpen, mu, mpc, cw, baseInt, onConn, canceled>>
    /\ UNCHANGED <<coordVars, publishVars, otherVars, queueVars>>

\* configured reconnect base intervals, in seconds
ReconnectInts == {1, 2, 3}

\* the client as constructed, not connected, with the reconnect loop and the
\* frame processing goroutine running
InitLink ==
    /\ isConnected = FALSE
    /\ linkOpen = FALSE
    /\ mu = "free"
    /\ cw = NoCall
    /\ baseInt \in ReconnectInts
    /\ curInt = baseInt
    /\ fails = NoFails
    /\ cur = <<>>
    /\ pres = NoPublish
    /\ sent = <<>>
    /\ onConn = FALSE
    /\ canceled = FALSE
    /\ handled = <<>>
    /\ arrived = <<>>
    /\ acks = [pending |-> <<>>, log |-> <<>>]
    /\ mpc = "run"
    /\ rpc = "check"
    /\ cpc = "recv"
    /\ frameChan = <<>>
    /\ buffer = <<>>
    /\ chunks = <<>>
    /\ scen = NoScen
    /\ pframe = <<>>
    /\ presult = NoResult
    /\ ppc = "idle"
    /\ NoPort

NextLink ==
    \/ NextMqtt
    \/ LoopConnect
    \/ LoopBackoff
    \/ LoopWake
    \/ LoopReset

SpecLink == InitLink /\ [][NextLink]_vars


RECURSIVE Pow2(_)
Pow2(k) == IF k = 0 THEN 1 ELSE 2 * Pow2(k - 1)

\* C14: the interval slept after k consecutive failed reconnect rounds,
\* k >= 1, is min(base * 2^k, cap) with cap = 10 * base, and is never above
\* the cap
C14_BackoffFormula ==
    rpc = "backoff" =>
        /\ fails.now >= 1
        /\ curInt = (IF baseInt * Pow2(fails.now) < 10 * baseInt
                     THEN baseInt * Pow2(fails.now) ELSE 10 * baseInt)
        /\ curInt <= 10 * baseInt

\* the fourth failed round in a row: the doubling is cut at the cap
C14_Witness ==
    /\ rpc = "backoff"
    /\ fails.now = 4
    /\ curInt = 10 * baseInt

C19_DropUnlinked ==
    [][(cpc = "isconn" /\ cpc' # "isconn" /\ ~isConnected) =>
          /\ cpc' = "recv"
          /\ cur' = <<>>
          /\ handled' = Append(handled, [frame |-> cur, how |-> "dropped"])
          /\ UNCHANGED <<pres, sent, acks, frameChan, buffer, presult>>]_vars

\* a frame was dropped and the next one was taken
C19_Witness ==
    /\ handled # <<>>
    /\ handled[1].how = "dropped"
    /\ cpc = "isconn"
    /\ sent = <<>>


\* C30: for every payload handed to the transport the acknowledgment
\* goroutine reports a failure when the transport reports a publish error and
\* a success only when the transport reports success
C30_OutcomeReporting ==
    \A i \in 1..Len(acks.log) :
        acks.log[i].line = (IF acks.log[i].delivered THEN "INFO" ELSE "ERROR")


\* the records of the frames whose Publish call handed a message over
RECURSIVE PublishedRecs(_)
PublishedRecs(h) ==
    IF h = <<>> THEN <<>>
    ELSE (IF Head(h).how = "published" THEN <<Parse(Head(h).frame).rec>>
          ELSE <<>>) \o PublishedRecs(Tail(h))

\* the contents of the data messages handed to the transport, in order
RECURSIVE DataContents(_)
DataContents(t) ==
    IF t = <<>> THEN <<>>
    ELSE (IF Head(t).payload[3][2] = "data" THEN <<Head(t).payload[4][2]>>
          ELSE <<>>) \o DataContents(Tail(t))

\* C21: frames are decoded and their Publish calls are issued in the order
\* in which they were put on the queue: the i-th frame processed is the i-th
\* frame emitted, and the data messages leave in that order
C21_FifoOrder ==
    /\ Len(handled) <= Len(arrived)
    /\ \A i \in 1..Len(handled) : handled[i].frame = arrived[i]
    /\ cur # <<>> => cur = arrived[Len(handled) + 1]
    /\ DataContents(sent) = PublishedRecs(handled)

\* two different frames arrived and both were processed, the second one
\* published
C21_Witness ==
    /\ Len(handled) = 2
    /\ handled[1].frame # handled[2].frame
    /\ handled[2].how = "published"

(***************************************************************************)
(* serial.Reader: NewReader, Start, openWithRetry, readData, Close         *)
(***************************************************************************)
\* capacity of the frame queue: make(chan []byte, 100)
FrameChanCap == 100
\* cfg.Serial.RetryCnt
SerialRetryCnt == 3
\* the bytes a successful read returns: nothing (the read timed out), one
\* frame, or two frames stuck together
ReadChunks == {<<>>, GoodFrame, GoodFrame \o GoodFrame}
\* a read that ends in the middle of a frame returns its first half; the
\* second half is what the device sends next
FrameHead == Slice(GoodFrame, 0, Len(GoodFrame) \div 2)
FrameTail == Slice(GoodFrame, Len(GoodFrame) \div 2, Len(GoodFrame))
\* the bytes the next successful read can return, given what is buffered
NextChunks(buf) ==
    IF buf = FrameHead THEN {<<>>, FrameTail}
    ELSE ReadChunks \cup {FrameHead}

\* the process has not died of a panic
Alive == spc # "panic"

readerCore == <<buffer, frameChan, pending, rdata, chClosed>>
quietVars == <<chunks, scen, pframe, presult, ppc>>

\* NewReader calls openWithRetry; the goroutine calls it when it finds the
\* link down: the caller takes r.mu and keeps it until the call returns
OpenLock ==
    /\ Alive
    /\ smu = "free"
    /\ \E who \in {"main", "loop"} :
          /\ IF who = "main" THEN smain = "new" ELSE spc = "open_wait"
          /\ smu' = who
          /\ ow' = [who |-> who, i |-> 1, st |-> "try"]
          /\ sView' = IF who = "loop" THEN sConnected ELSE sView
    /\ UNCHANGED <<sConnected, port, spc, smain, sctx>>
    /\ UNCHANGED <<readerCore, quietVars, mqttVars>>

\* one attempt: isPortExist and serial.Open; the first success stores the
\* handle, sets the flag and returns nil
OpenTry ==
    /\ Alive
    /\ ow.st = "try"
    /\ \E ok \in BOOLEAN :
          IF ok
          THEN /\ port' = "open"
               /\ sConnected' = TRUE
               /\ sView' = IF ow.who = "loop" THEN TRUE ELSE sView
               /\ smu' = "free"
               /\ ow' = NoCall
               /\ smain' = IF ow.who = "main" THEN "ready" ELSE smain
               /\ spc' = IF ow.who = "loop" THEN "read_wait" ELSE spc
          ELSE /\ ow' = [ow EXCEPT !.st = "sleep"]
               /\ UNCHANGED <<port, sConnected, sView, smu, smain, spc>>
    /\ UNCHANGED sctx
    /\ UNCHANGED <<readerCore, quietVars, mqttVars>>

\* the sleep after a failed attempt ends: the next attempt, or after retryCnt
\* attempts the error return, fatal to NewReader and retried by the goroutine
OpenSleep_mut ==
    /\ Alive
    /\ ow.st = "sleep"
    /\ ow' = [ow EXCEPT !.i = ow.i + 1, !.st = "try"]
    /\ UNCHANGED <<smu, smain, spc>>
    /\ UNCHANGED <<sConnected, port, sctx, sView>>
    /\ UNCHANGED <<readerCore, quietVars, mqttVars>>

OpenSleep ==
    /\ Alive
    /\ ow.st = "sleep"
    /\ IF ow.i < SerialRetryCnt
       THEN /\ ow' = [ow EXCEPT !.i = ow.i + 1, !.st = "try"]
            /\ UNCHANGED <<smu, smain, spc>>
       ELSE /\ ow' = NoCall
            /\ smu' = "free"
            /\ smain' = IF ow.who = "main" THEN "failed" ELSE smain
            /\ spc' = IF ow.who = "loop" THEN "retry_sleep" ELSE spc
    /\ UNCHANGED <<sConnected, port, sctx, sView>>
    /\ UNCHANGED <<readerCore, quietVars, mqttVars>>

\* serialReader.Start(): the goroutine begins at the select and sees what
\* NewReader wrote
Start ==
    /\ smain = "ready"
    /\ smain' = "run"
    /\ spc' = "select"
    /\ sView' = sConnected
    /\ UNCHANGED <<sConnected, port, smu, sctx, ow>>
    /\ UNCHANGED <<readerCore, quietVars, mqttVars>>

\* select: a cancelled context wins over the default branch
LoopSelect ==
    /\ spc = "select"
    /\ spc' = IF sctx THEN "closing" ELSE "check"
    /\ UNCHANGED <<sConnected, port, smu, smain, sctx, ow, sView>>
    /\ UNCHANGED <<readerCore, quietVars, mqttVars>>

LoopConnected_mut ==
    /\ spc = "check"
    /\ spc' = "read_wait"
    /\ UNCHANGED <<sConnected, port, smu, smain, sctx, ow, sView>>
    /\ UNCHANGED <<readerCore, quietVars, mqttVars>>

\* if !r.isConnected, read without the lock: the goroutine sees the flag as
\* it is or as it last saw it under the lock
LoopConnected ==
    /\ spc = "check"
    /\ \E v \in {sConnected, sView} :
          spc' = IF v THEN "read_wait" ELSE "open_wait"
    /\ UNCHANGED <<sConnected, port, smu, smain, sctx, ow, sView>>
    /\ UNCHANGED <<readerCore, quietVars, mqttVars>>

\* time.Sleep(r.retryInt) after a failed openWithRetry, then continue
LoopRetrySleep ==
    /\ spc = "retry_sleep"
    /\ spc' = "select"
    /\ UNCHANGED <<sConnected, port, smu, smain, sctx, ow, sView>>
    /\ UNCHANGED <<readerCore, quietVars, mqttVars>>

\* readData takes r.mu; without a handle it returns an error at once, else
\* it sets the timeout and starts the read with the lock held
ReadLock ==
    /\ spc = "read_wait"
    /\ smu = "free"
    /\ sView' = sConnected
    /\ IF port = "nil"
       THEN /\ spc' = "read_err"
            /\ UNCHANGED smu
       ELSE /\ spc' = "reading"
            /\ smu' = "loop"
    /\ UNCHANGED <<sConnected, port, smain, sctx, ow>>
    /\ UNCHANGED <<readerCore, quietVars, mqttVars>>

\* r.port.Read returns: an error (always, from a closed handle), or up to 128
\* bytes, none when the read timed out; the deferred Unlock runs
ReadReturn ==
    /\ spc = "reading"
    /\ smu' = "free"
    /\ \E failed \in (IF port = "open" THEN BOOLEAN ELSE {TRUE}) :
          IF failed
          THEN /\ spc' = "read_err"
               /\ UNCHANGED rdata
          ELSE \E c \in NextChunks(buffer) :
                  /\ rdata' = c
                  /\ spc' = IF Len(c) > 0 THEN "handle_wait" ELSE "select"
    /\ UNCHANGED <<sConnected, port, smain, sctx, ow, sView>>
    /\ UNCHANGED <<buffer, frameChan, pending, chClosed, quietVars, mqttVars>>

\* the error branch: the flag is cleared under the lock
ReadError_mut ==
    /\ spc = "read_err"
    /\ smu = "free"
    /\ sView' = sConnected
    /\ spc' = "close_port"
    /\ UNCHANGED <<sConnected, port, smu, smain, sctx, ow>>
    /\ UNCHANGED <<readerCore, quietVars, mqttVars>>

ReadError ==
    /\ spc = "read_err"
    /\ smu = "free"
    /\ sConnected' = FALSE
    /\ sView' = FALSE
    /\ spc' = "close_port"
    /\ UNCHANGED <<port, smu, smain, sctx, ow>>
    /\ UNCHANGED <<readerCore, quietVars, mqttVars>>

ClosePort_mut ==
    /\ spc = "close_port"
    /\ IF port = "nil"
       THEN /\ spc' = "panic"
            /\ UNCHANGED port
       ELSE /\ spc' = "err_sleep"
            /\ port' = "closed"
    /\ buffer' = <<>>
    /\ UNCHANGED <<sConnected, smu, smain, sctx, ow, sView>>
    /\ UNCHANGED <<frameChan, pending, rdata, chClosed, quietVars, mqttVars>>

\* _ = r.port.Close(): the handle is closed and r.port keeps it; on a nil
\* r.port the call is a nil dereference and the process panics
ClosePort ==
    /\ spc = "close_port"
    /\ IF port = "nil"
       THEN /\ spc' = "panic"
            /\ UNCHANGED port
       ELSE /\ spc' = "err_sleep"
            /\ port' = "closed"
    /\ UNCHANGED <<sConnected, smu, smain, sctx, ow, sView>>
    /\ UNCHANGED <<readerCore, quietVars, mqttVars>>

\* time.Sleep(r.retryInt) after a failed read, then continue
ErrSleep ==
    /\ spc = "err_sleep"
    /\ spc' = "select"
    /\ UNCHANGED <<sConnected, port, smu, smain, sctx, ow, sView>>
    /\ UNCHANGED <<readerCore, quietVars, mqttVars>>

\* handleData, first critical section: the chunk is appended to r.buffer and
\* the length is taken; below minFrameLen the call returns
HandleAppend ==
    /\ spc = "handle_wait"
    /\ smu = "free"
    /\ sView' = sConnected
    /\ buffer' = buffer \o rdata
    /\ spc' = IF Len(buffer') < FrameMinLen THEN "select" ELSE "scan_wait"
    /\ UNCHANGED <<sConnected, port, smu, smain, sctx, ow>>
    /\ UNCHANGED <<frameChan, pending, rdata, chClosed, quietVars, mqttVars>>

\* handleData, second critical section: r.mu is taken until the call returns
HandleLock ==
    /\ spc = "scan_wait"
    /\ smu = "free"
    /\ smu' = "loop"
    /\ sView' = sConnected
    /\ spc' = "scan"
    /\ UNCHANGED <<sConnected, port, smain, sctx, ow>>
    /\ UNCHANGED <<readerCore, quietVars, mqttVars>>

\* one pass of the extraction loop up to the send: the loop ends with the
\* buffer cleared or cut at the header, or a frame is found
scanStep(buf) ==
    LET bufLen == Len(buf)
        startIdx == findStart(buf)
        endIdx == findEnd(buf, startIdx)
    IN IF bufLen < FrameMinLen THEN [found |-> FALSE, buffer |-> buf]
       ELSE IF startIdx = -1 THEN [found |-> FALSE, buffer |-> <<>>]
       ELSE IF bufLen - startIdx < FrameMinLen
            THEN [found |-> FALSE, buffer |-> Slice(buf, startIdx, bufLen)]
       ELSE IF endIdx = -1
            THEN [found |-> FALSE, buffer |-> Slice(buf, startIdx, bufLen)]
       ELSE [found |-> TRUE, buffer |-> buf,
             validFrame |-> Slice(buf, startIdx, endIdx), endIdx |-> endIdx]

HandleScan ==
    /\ spc = "scan"
    /\ LET r == scanStep(buffer)
       IN IF r.found
          THEN /\ pending' = <<[validFrame |-> r.validFrame,
                                endIdx |-> r.endIdx]>>
               /\ spc' = "send"
               /\ UNCHANGED <<buffer, smu>>
          ELSE /\ buffer' = r.buffer
               /\ smu' = "free"
               /\ spc' = "select"
               /\ UNCHANGED pending
    /\ UNCHANGED <<sConnected, port, smain, sctx, ow, sView>>
    /\ UNCHANGED <<frameChan, rdata, chClosed, quietVars, mqttVars>>

\* r.frameChan <- validFrame with r.mu held: the send waits while the queue
\* is full and panics on a closed channel; then the buffer is cut at endIdx
HandleSend_mut ==
    /\ spc = "send"
    /\ IF chClosed
       THEN /\ spc' = "panic"
            /\ UNCHANGED <<frameChan, buffer, pending>>
       ELSE /\ frameChan' = IF Len(frameChan) < FrameChanCap
                            THEN Append(frameChan, pending[1].validFrame)
                            ELSE frameChan
            /\ buffer' = Slice(buffer, pending[1].endIdx, Len(buffer))
            /\ pending' = <<>>
            /\ spc' = "scan"
    /\ UNCHANGED <<sConnected, port, smu, smain, sctx, ow, sView>>
    /\ UNCHANGED <<rdata, chClosed, quietVars, mqttVars>>

HandleSend ==
    /\ spc = "send"
    /\ chClosed \/ Len(frameChan) < FrameChanCap
    /\ IF chClosed
       THEN /\ spc' = "panic"
            /\ UNCHANGED <<frameChan, buffer, pending>>
       ELSE /\ frameChan' = Append(frameChan, pending[1].validFrame)
            /\ buffer' = Slice(buffer, pending[1].endIdx, Len(buffer))
            /\ pending' = <<>>
            /\ spc' = "scan"
    /\ UNCHANGED <<sConnected, port, smu, smain, sctx, ow, sView>>
    /\ UNCHANGED <<rdata, chClosed, quietVars, mqttVars>>

\* Reader.Close, called by main on the exit signal and by the goroutine on a
\* cancelled context: under r.mu the handle is closed and dropped, the flag
\* cleared and the context cancelled; the select takes a frame off the queue
\* when one is there (a closed channel is always ready), else closes it
Close ==
    /\ Alive
    /\ smu = "free"
    /\ \E who \in {"main", "loop"} :
          /\ IF who = "main" THEN smain = "run" ELSE spc = "closing"
          /\ smain' = IF who = "main" THEN "closed" ELSE smain
          /\ spc' = IF who = "loop" THEN "exit" ELSE spc
          /\ sView' = IF who = "loop" THEN FALSE ELSE sView
    /\ port' = "nil"
    /\ sConnected' = FALSE
    /\ sctx' = TRUE
    /\ IF frameChan # <<>>
       THEN /\ frameChan' = Tail(frameChan)
            /\ UNCHANGED chClosed
       ELSE /\ chClosed' = TRUE
            /\ UNCHANGED frameChan
    /\ UNCHANGED <<smu, ow>>
    /\ UNCHANGED <<buffer, pending, rdata, quietVars, mqttVars>>

\* for rawFrame := range frameChan: the processing goroutine takes a frame
Dequeue ==
    /\ Alive
    /\ smain \in {"run", "closed"}
    /\ frameChan # <<>>
    /\ frameChan' = Tail(frameChan)
    /\ UNCHANGED <<sConnected, port, smu, spc, smain, sctx, ow, sView>>
    /\ UNCHANGED <<buffer, pending, rdata, chClosed, quietVars, mqttVars>>

InitSerial ==
    /\ ReaderConstructed
    /\ spc = "off"
    /\ smain = "new"
    /\ buffer = <<>>
    /\ frameChan = <<>>
    /\ chunks = <<>>
    /\ scen = NoScen
    /\ pframe = <<>>
    /\ presult = NoResult
    /\ ppc = "idle"
    /\ NoClient

NextSerial ==
    \/ OpenLock \/ OpenTry \/ OpenSleep \/ Start
    \/ LoopSelect \/ LoopConnected \/ LoopRetrySleep
    \/ ReadLock \/ ReadReturn \/ ReadError \/ ClosePort \/ ErrSleep
    \/ HandleAppend \/ HandleLock \/ HandleScan \/ HandleSend
    \/ Close \/ Dequeue

SpecSerial == InitSerial /\ [][NextSerial]_vars

(***************************************************************************)
(* Serial lifecycle claims                                                 *)
(***************************************************************************)
C25_Step ==
    \* at most retryCnt attempts
    /\ ow'.who # "none" => ow'.i \in 1..SerialRetryCnt
    \* the call returns nil at the first successful open, with the handle
    \* and the connected state set
    /\ (ow.st = "try" /\ ow' = NoCall) => (port' = "open" /\ sConnected')
    /\ (ow.st = "try" /\ ow' # NoCall /\ ow' # ow) =>
          (ow'.st = "sleep" /\ ow'.i = ow.i)
    \* the error return comes after retryCnt failures and leaves the state
    \* not connected
    /\ (ow.st = "sleep" /\ ow' = NoCall) =>
          /\ ow.i = SerialRetryCnt
          /\ ~sConnected'
          /\ ow.who = "main" => (smain' = "failed" /\ spc' = "off")
          /\ ow.who = "loop" => spc' = "retry_sleep"
    \* a failed NewReader starts no goroutine
    /\ smain' = "failed" => spc' = "off"
    \* the goroutine sleeps and goes round to the next openWithRetry
    /\ (spc = "retry_sleep" /\ spc' # spc) => spc' = "select"
    /\ (spc = "select" /\ ~sctx /\ spc' # spc) => spc' = "check"
    /\ (spc = "check" /\ ~sConnected /\ ~sView /\ spc' # spc) =>
          spc' = "open_wait"

\* C25: openWithRetry makes at most retryCnt attempts and stops at the first
\* success, which sets the handle and the connected state; after retryCnt
\* failures it returns an error with the state not connected; NewReader
\* hands that error to its caller and no goroutine runs, the goroutine
\* sleeps the retry interval and starts another round
C25_BoundedOpen == [][C25_Step]_vars

\* a round of the goroutine failed retryCnt times and another round is on
\* its last attempt
C25_Witness ==
    /\ smain = "run"
    /\ ow.who = "loop"
    /\ ow.i = SerialRetryCnt
    /\ ow.st = "sleep"
    /\ ~sctx

C23_Step ==
    ~sctx' =>
       \* the error is handled by clearing the flag
       /\ (spc = "read_err" /\ spc' # spc) =>
             (spc' = "close_port" /\ ~sConnected')
       \* then the handle is closed
       /\ (spc = "close_port" /\ spc' # spc) =>
             (spc' = "err_sleep" /\ port = "open" /\ port' = "closed")
       \* then the retry interval is slept with the link down and no handle
       \* open
       /\ spc' = "err_sleep" => (~sConnected' /\ port' = "closed")
       \* then the loop goes round and reopens
       /\ (spc = "err_sleep" /\ spc' # spc) => (spc' = "select" /\ ~sView')
       /\ (spc = "select" /\ spc' # spc) => spc' = "check"
       /\ (spc = "check" /\ ~sConnected /\ ~sView /\ spc' # spc) =>
             spc' = "open_wait"
       /\ (spc = "open_wait" /\ ow = NoCall /\ ow' # ow) =>
             ow' = [who |-> "loop", i |-> 1, st |-> "try"]
       \* and the goroutine is never ended by it
       /\ spc # "off" => spc' \notin {"off", "exit", "panic", "closing"}

\* C23: as long as no shutdown is requested, a read error on the connected
\* link makes the goroutine clear the connected state, close the port
\* handle, sleep the retry interval and then call openWithRetry again; the
\* read loop does not end
C23_ReadErrorTransition == [][C23_Step]_vars

\* after a read error the goroutine is back at openWithRetry with the old
\* handle closed
C23_Witness ==
    /\ spc = "open_wait"
    /\ port = "closed"
    /\ ow = NoCall
    /\ ~sctx

\* the goroutine is between the call of r.port.Read and its return
Reading == spc = "reading"

\* where the goroutine is while it deals with a link that is down: closing
\* the old handle, sleeping, going round the loop, in openWithRetry
ReopenPath ==
    {"close_port", "err_sleep", "select", "check", "open_wait", "retry_sleep"}

\* C24: a read is in progress only while the state is connected and the
\* handle is one a successful open returned and nobody has closed; while the
\* state is not connected and no shutdown is requested, the goroutine is on
\* its way to openWithRetry or in it, and calls neither readData nor
\* handleData
C24_NoReadDisconnected ==
    /\ Reading => (sConnected /\ port = "open" /\ smu = "loop")
    /\ (~sConnected /\ ~sctx /\ spc # "off") => spc \in ReopenPath
    /\ ow.who = "loop" => (spc = "open_wait" /\ ~sConnected)

\* a read is in progress while frames of earlier reads wait on the queue
C24_Witness ==
    /\ Reading
    /\ frameChan # <<>>
    /\ ~sctx

\* the goroutine is at the send of line 258 with a frame in hand
Emitting == spc = "send" /\ ~chClosed

C22_Step ==
    Emitting =>
       \* the frame stays in hand, or it is the one added at the tail
       \/ (pending' = pending /\ spc' = spc
           /\ Len(frameChan') <= Len(frameChan))
       \/ frameChan' = Append(frameChan, pending[1].validFrame)

\* C22: the queue never holds more than 100 frames; with the queue full the
\* send of handleData waits, the frame in hand is neither dropped nor put on
\* a longer queue, and the send goes through as soon as the queue has room
C22_Backpressure ==
    /\ [](Len(frameChan) <= FrameChanCap)
    /\ [](Emitting => (ENABLED HandleSend <=> Len(frameChan) < FrameChanCap))
    /\ [][C22_Step]_vars

\* the queue is full and handleData waits at the send
C22_Witness ==
    /\ Emitting
    /\ Len(frameChan) = FrameChanCap
    /\ ~sctx

\* a blocking operation of the reader is in progress: serial.Open or the
\* sleep between attempts, the timed read, the send on a full queue
ReaderBlocking ==
    \/ ow.st \in {"try", "sleep"}
    \/ Reading
    \/ (Emitting /\ Len(frameChan) = FrameChanCap)

\* C27: Reader.mu is not held while a serial open, a retry sleep, a timed
\* read or a send on a full queue is in progress
C27_LockScope == ReaderBlocking => smu = "free"

\* main's call of Reader.Close has returned
MainClosed == smain = "closed"

\* C26: once Reader.Close has returned to main the goroutine only goes on to
\* its exit: it does not open the port, does not read, holds no handle, and
\* the process does not panic
C26_SerialShutdown ==
    MainClosed =>
       /\ port = "nil"
       /\ ow.who # "loop"
       /\ ~Reading
       /\ Alive

(***************************************************************************)
(* Reassembler claims: emitted frames and the buffer                       *)
(***************************************************************************)
\* the chunks of a feed, joined
RECURSIVE Concat(_)
Concat(cs) == IF cs = <<>> THEN <<>> ELSE Head(cs) \o Concat(Tail(cs))

\* the bytes handed to handleData so far
Received ==
    LET all == Concat(scen.feed)
    IN Slice(all, 0, Len(all) - Len(Concat(chunks)))

\* f is s[i:i+len(f)] for some i
IsSliceOf(f, s) ==
    \E i \in 0..(Len(s) - Len(f)) : Slice(s, i, i + Len(f)) = f

\* C29: every frame on the queue has at least minFrameLen bytes, begins with
\* the start marker, ends with the end marker, which therefore lies at
\* offset minFrameLen - len(end) or later, and is a contiguous slice of the
\* bytes received
C29_EmittedFrame ==
    \A k \in 1..Len(frameChan) :
        LET f == frameChan[k]
            startLen == Len(GetFrameStart)
            endLen == Len(GetFrameEnd)
        IN /\ Len(f) >= FrameMinLen
           /\ Slice(f, 0, startLen) = GetFrameStart
           /\ Slice(f, Len(f) - endLen, Len(f)) = GetFrameEnd
           /\ IsSliceOf(f, Received)

\* frames were emitted from a feed that held garbage before the frame, and
\* one of them is longer than the shortest frame
C29_Witness ==
    /\ scen.kind = "garbage"
    /\ scen.G # <<>>
    /\ frameChan # <<>>
    /\ Len(frameChan[1]) > FrameMinLen
    /\ chunks = <<>>

\* make([]byte, 0, 1024): the capacity the buffer is created with
BufferCap == 1024

\* C28: after every handleData call the buffer holds no more than a fixed
\* number of bytes, whatever the length of the stream received
C28_BoundedBuffer == Len(buffer) <= BufferCap

(***************************************************************************)
(* Serial shutdown claims                                                  *)
(***************************************************************************)
\* C37: whatever the interleaving of main's Reader.Close with the goroutine
\* of Start, the goroutine neither sends on the closed frame queue nor calls
\* a method on a nil port handle: the process does not panic
C37_ShutdownRace == ~(spc = "panic")

\* the step is a Reader.Close call, of main or of the goroutine
CloseStep ==
    \/ (smain = "run" /\ smain' = "closed")
    \/ (spc = "closing" /\ spc' = "exit")

\* C35: a Reader.Close call leaves the handle released, the context
\* cancelled and the frame queue closed, and takes no frame off the queue
C35_QueueClosed ==
    [][CloseStep =>
          /\ port' = "nil"
          /\ sctx'
          /\ chClosed'
          /\ frameChan' = frameChan]_vars

(***************************************************************************)
(* Publish precondition                                                    *)
(***************************************************************************)
\* C34: a Publish call that finds the connection flag false, or the paho
\* client nil, returns an error, hands nothing to the transport, starts no
\* acknowledgment goroutine and leaves the flag as it was
C34_PublishRefused ==
    /\ (pres.kind # "none" /\ ~pres.flag) =>
          /\ pres.err = "ErrNotConnected"
          /\ pres.handed = 0
          /\ sent = <<>>
          /\ acks = [pending |-> <<>>, log |-> <<>>]
          /\ isConnected = pres.flag
          /\ linkOpen = pres.open
    /\ \A m \in Messages, c \in ClientStates :
          Publish(TRUE, c[1], c[2], m) = Refused("ErrClientNil")

\* a data message was refused on a client whose flag is false
C34_Witness ==
    /\ pres.kind = "data"
    /\ ~pres.flag
    /\ pres.err # "none"

(***************************************************************************)
(* MQTT shutdown                                                           *)
(***************************************************************************)
\* C36: a Client.Close call always has a next step until it has returned,
\* also when the link is connected, and once it has returned the flag is
\* false and the context of the reconnect loop is cancelled
C36_CloseTerminates ==
    /\ mpc = "close_held" => ENABLED CloseBody
    /\ mpc = "close_publish" => (mu = "free" /\ ENABLED CloseResume)
    /\ mpc = "closed" => (~isConnected /\ canceled)

(***************************************************************************)
(* calcSum on its own: data segments of any length                         *)
(***************************************************************************)
SumFill == {255}
SumLast == {0, 1, 255}
\* n bytes, all alike but the last
SumData ==
    {[i \in 1..n |-> IF i = n THEN w ELSE v] :
        n \in 0..MaxSumLen, v \in SumFill, w \in SumLast}

\* var sum uint16, before the first byte of the data segment
InitSum ==
    /\ pframe \in SumData
    /\ buffer = pframe
    /\ presult = [err |-> "pending", rec |-> 0]
    /\ ppc = "sum"
    /\ scen = NoScen
    /\ chunks = <<>>
    /\ frameChan = <<>>
    /\ NoClient
    /\ NoPort

\* one pass of the loop of calcSum: sum += uint16(b); buffer holds the
\* bytes the loop has still to visit
SumAdd ==
    /\ ppc = "sum"
    /\ buffer # <<>>
    /\ presult' = [presult EXCEPT !.rec = calcSumAcc(<<Head(buffer)>>, @)]
    /\ buffer' = Tail(buffer)
    /\ UNCHANGED <<pframe, ppc, scen, chunks, frameChan>>
    /\ UNCHANGED mqttVars
    /\ UNCHANGED serialVars

\* return byte(sum & 0xFF)
SumReturn ==
    /\ ppc = "sum"
    /\ buffer = <<>>
    /\ presult' = [err |-> "none", rec |-> presult.rec % 256]
    /\ ppc' = "summed"
    /\ UNCHANGED <<pframe, buffer, scen, chunks, frameChan>>
    /\ UNCHANGED mqttVars
    /\ UNCHANGED serialVars

NextSum == SumAdd \/ SumReturn

SpecSum == InitSum /\ [][NextSum]_vars

\* the mathematical sum of the bytes s[lo..hi]
RECURSIVE MathSum(_, _, _)
MathSum(s, lo, hi) ==
    IF lo > hi THEN 0
    ELSE IF lo = hi THEN s[lo]
    ELSE LET mid == (lo + hi) \div 2
         IN MathSum(s, lo, mid) + MathSum(s, mid + 1, hi)

\* C33: calcSum returns the sum of the bytes of the data segment modulo 256,
\* whatever the length of the segment, also when the sum is beyond 65535 and
\* the 16-bit accumulator has wrapped
C33_ChecksumArithmetic ==
    ppc = "summed" => presult.rec = MathSum(pframe, 1, Len(pframe)) % 256

\* calcSum has returned for a segment whose byte sum is beyond 65535
C33_Witness ==
    /\ ppc = "summed"
    /\ MathSum(pframe, 1, Len(pframe)) > 65535
    /\ pframe[Len(pframe)] = 1

(***************************************************************************)
(* Reassembler claims: the buffer a call leaves                            *)
(***************************************************************************)
\* marker m lies in s at offset i
MarkerAt(s, i, m) ==
    /\ i + Len(m) <= Len(s)
    /\ Slice(s, i, i + Len(m)) = m

\* t is what is left of s after dropping bytes at its head
IsSuffixOf(t, s) ==
    /\ Len(t) <= Len(s)
    /\ Slice(s, Len(s) - Len(t), Len(s)) = t

C32_Step ==
    LET all == buffer \o Head(chunks)
        endLen == Len(GetFrameEnd)
    IN chunks' # chunks =>
       \* the call only drops bytes at the head of the buffer
       /\ IsSuffixOf(buffer', all)
       \* below minFrameLen nothing is touched
       /\ Len(all) < FrameMinLen => buffer' = all
       \* with no start marker in at least minFrameLen bytes all is discarded
       /\ (Len(all) >= FrameMinLen
           /\ \A i \in 0..(Len(all) - 1) : ~MarkerAt(all, i, GetFrameStart))
             => buffer' = <<>>
       \* what is left is short, or begins at a start marker and holds no
       \* frame tail where a frame could end
       /\ \/ Len(buffer') < FrameMinLen
          \/ /\ MarkerAt(buffer', 0, GetFrameStart)
             /\ \A i \in (FrameMinLen - endLen)..(Len(buffer') - endLen) :
                   ~MarkerAt(buffer', i, GetFrameEnd)
       \* a buffer emptied without a frame sent held no start marker
       /\ (buffer' = <<>> /\ frameChan' = frameChan /\ all # <<>>) =>
             \A i \in 0..(Len(all) - 1) : ~MarkerAt(all, i, GetFrameStart)

\* C32: when handleData returns the buffer is shorter than minFrameLen and,
\* if it never reached minFrameLen, untouched; or it is empty because at
\* least minFrameLen bytes held no start marker; or it begins at a start
\* marker, the bytes before the marker dropped, with no complete frame left
C32_BufferDisposition == [][C32_Step]_vars

\* a call was given at least minFrameLen bytes without a start marker and
\* has discarded them; the frame is still to come
C32_Witness ==
    /\ scen.kind = "garbage"
    /\ Len(scen.G) >= FrameMinLen
    /\ Len(scen.feed) = 2
    /\ Len(chunks) = 1
    /\ buffer = <<>>
    /\ frameChan = <<>>

\* C38: the frames emitted for a stream do not depend on how the stream was
\* cut into chunks: once a feed is consumed, the frames on the queue are those
\* handleData emits when it is given the whole stream as one chunk
C38_ChunkingIndependence ==
    chunks = <<>> => frameChan = handleData(<<>>, Concat(scen.feed)).out

(***************************************************************************)
(* The accumulation buffer across a reconnect                              *)
(***************************************************************************)
\* the goroutine is inside handleData
Handling == spc \in {"handle_wait", "scan_wait", "scan", "send"}

C39_Step ==
    \* outside handleData no step touches the buffer: not the error branch,
    \* not the sleeps, not openWithRetry, not Close
    /\ ~Handling => buffer' = buffer
    \* the chunk a read returned is appended to what was buffered
    /\ (spc = "handle_wait" /\ spc' # spc) => buffer' = buffer \o rdata

\* C39: a read error followed by a reopen leaves the accumulation buffer as
\* it was, and the bytes read after the reopen are appended to it
C39_BufferAcrossReconnect == [][C39_Step]_vars

\* half a frame is buffered, the read after it failed, the handle was closed
\* and the goroutine is reopening the port
C39_Witness ==
    /\ buffer = FrameHead
    /\ port = "closed"
    /\ ow.who = "loop"
    /\ ow.st = "try"


(***************************************************************************)
(* The text decoder: Parser.ParseData over line-oriented text frames.      *)
(* A string is the sequence of its bytes: a printable ASCII byte is        *)
(* written as its character, the control bytes as "CR", "LF" and "TAB",    *)
(* every other byte as two hex digits; the Go slice s[lo:hi] is             *)
(* SubSeq(s, lo + 1, hi)                                                   *)
(***************************************************************************)
CRLF == <<"CR", "LF">>
DigitChars == <<"0", "1", "2", "3", "4", "5", "6", "7", "8", "9">>
\* unicode.IsDigit on the bytes of the alphabet
IsDigit(c) == \E k \in 1..Len(DigitChars) : DigitChars[k] = c

\* t occurs in s at the zero-based offset i
HasAt(s, i, t) ==
    /\ i + Len(t) <= Len(s)
    /\ \A k \in 1..Len(t) : s[i + k] = t[k]
\* strings.Index; strings.Contains is Index # -1 and strings.HasPrefix is
\* HasAt(s, 0, t)
Index(s, t) ==
    IF \E i \in 0..Len(s) : HasAt(s, i, t)
    THEN Min({i \in 0..Len(s) : HasAt(s, i, t)})
    ELSE -1

\* strings.TrimSpace: the white space of the alphabet is cut at both ends
RECURSIVE TrimLeft(_)
TrimLeft(s) ==
    IF s # <<>> /\ Head(s) \in {"CR", "LF", "TAB", " "}
    THEN TrimLeft(Tail(s))
    ELSE s
RECURSIVE TrimRight(_)
TrimRight(s) ==
    IF s # <<>> /\ s[Len(s)] \in {"CR", "LF", "TAB", " "}
    THEN TrimRight(SubSeq(s, 1, Len(s) - 1))
    ELSE s
TrimSpace(s) == TrimRight(TrimLeft(s))

\* strings.ReplaceAll
RECURSIVE ReplaceAll(_, _, _)
ReplaceAll(s, old, new) ==
    IF s = <<>> THEN <<>>
    ELSE IF HasAt(s, 0, old)
         THEN new \o ReplaceAll(SubSeq(s, Len(old) + 1, Len(s)), old, new)
         ELSE <<Head(s)>> \o ReplaceAll(Tail(s), old, new)

\* a map given as a sequence of <<key, value>> pairs
Lookup(map, key) ==
    IF \E k \in 1..Len(map) : map[k][1] = key
    THEN map[CHOOSE k \in 1..Len(map) : map[k][1] = key][2]
    ELSE key

nameMap ==
    <<
      <<<<"E8", "91", "A1", "E8", "90", "84", "E7", "B3", "96">>,
        <<"G", "L", "U">>>>,
      <<<<"E8", "83", "86", "E7", "BA", "A2", "E7", "B4", "A0">>,
        <<"B", "I", "L">>>>,
      <<<<"E6", "AF", "94", "E9", "87", "8D">>,
        <<"S", "G">>>>,
      <<<<"P", "H">>,
        <<"P", "H">>>>,
      <<<<"E9", "85", "AE", "E4", "BD", "93">>,
        <<"K", "E", "T">>>>,
      <<<<"E6", "BD", "9C", "E8", "A1", "80">>,
        <<"B", "L", "D">>>>,
      <<<<"E8", "9B", "8B", "E7", "99", "BD", "E8", "B4", "A8">>,
        <<"P", "R", "O">>>>,
      <<<<"E5", "B0", "BF", "E8", "83", "86", "E5", "8E", "9F">>,
        <<"U", "R", "O">>>>,
      <<<<"E4", "BA", "9A", "E7", "A1", "9D", "E9", "85", "B8", "E7", "9B", "90">>,
        <<"N", "I", "T">>>>,
      <<<<"E7", "99", "BD", "E7", "BB", "86", "E8", "83", "9E">>,
        <<"L", "E", "U">>>>,
      <<<<"E6", "8A", "97", "E5", "9D", "8F", "E8", "A1", "80", "E9", "85", "B8">>,
        <<"V", "C">>>>,
      <<<<"E8", "82", "8C", "E9", "85", "90">>,
        <<"C", "R", "E">>>>,
      <<<<"E5", "B0", "BF", "E9", "92", "99">>,
        <<"C", "A">>>>,
      <<<<"E5", "BE", "AE", "E9", "87", "8F", "E7", "99", "BD", "E8", "9B", "8B", "E7", "99", "BD">>,
        <<"M", "C", "A">>>>
    >>

plusMap ==
    <<
      <<<<"+", "+", "+", "+">>,
        <<"4", "+">>>>,
      <<<<"+", "+", "+">>,
        <<"3", "+">>>>,
      <<<<"+", "+">>,
        <<"2", "+">>>>,
      <<<<"+">>,
        <<"1", "+">>>>,
      <<<<"-">>,
        <<"E9", "98", "B4", "E6", "80", "A7">>>>,
      <<<<"C2", "B1">>,
        <<"E5", "BC", "B1", "E9", "98", "B3", "E6", "80", "A7">>>>
    >>


\* "+-" becomes the plus-minus sign and "u" the micro sign, then the map
normalizeItemName(name) ==
    Lookup(nameMap,
           ReplaceAll(ReplaceAll(name, <<"+", "-">>, <<"C2", "B1">>),
                      <<"u">>, <<"CE", "BC">>))

\* strconv.ParseFloat changes nothing: the value is returned in both cases
normalizeValue(value) == Lookup(plusMap, TrimSpace(value))

\* strings.Split(line, "\t"): the first two parts
parseItemLine(line) ==
    LET Item(name, value) ==
            IF name = <<>> \/ value = <<>> THEN [nil |-> TRUE]
            ELSE [nil |-> FALSE, Name |-> normalizeItemName(name),
                  Value |-> normalizeValue(value)]
        Second(rest, tab2) == IF tab2 = -1 THEN rest ELSE SubSeq(rest, 1, tab2)
        First(rest) == Second(rest, Index(rest, <<"TAB">>))
        Split(tab) ==
            IF tab = -1 THEN [nil |-> TRUE]
            ELSE Item(TrimSpace(SubSeq(line, 1, tab)),
                      TrimSpace(First(SubSeq(line, tab + 2, Len(line)))))
    IN Split(Index(line, <<"TAB">>))

isValidDateLine(line) ==
    /\ Len(line) = 10
    /\ line[5] = "-"
    /\ line[8] = "-"

isValidTimeLine(line) ==
    /\ Len(line) = 8
    /\ line[3] = ":"
    /\ line[6] = ":"

isValidSampleID(line) ==
    /\ line # <<>>
    /\ \A k \in 1..Len(line) : IsDigit(line[k])

\* time.Parse("2006-01-02", line): the zero time when the line is no date
ZeroDate == [Year |-> 1, Month |-> 1, Day |-> 1]
timeParse(line) ==
    LET DigitVal(c) ==
            (CHOOSE k \in 1..Len(DigitChars) : DigitChars[k] = c) - 1
        Pair(i) == 10 * DigitVal(line[i]) + DigitVal(line[i + 1])
        Days(y, m) ==
            IF m = 2
            THEN (IF (y % 4 = 0 /\ y % 100 # 0) \/ y % 400 = 0 THEN 29 ELSE 28)
            ELSE IF m \in {4, 6, 9, 11} THEN 30 ELSE 31
        Date(y, m, d) ==
            IF m \in 1..12 /\ d \in 1..Days(y, m)
            THEN [Year |-> y, Month |-> m, Day |-> d]
            ELSE ZeroDate
    IN IF /\ isValidDateLine(line)
          /\ \A k \in {1, 2, 3, 4, 6, 7, 9, 10} : IsDigit(line[k])
       THEN Date(100 * Pair(1) + Pair(3), Pair(6), Pair(9))
       ELSE ZeroDate

\* bufio.ScanLines: the lines end at "\n", a "\r" before it is dropped
RECURSIVE ScanLines(_)
ScanLines(s) ==
    LET DropCR(l) == IF l # <<>> /\ l[Len(l)] = "CR"
                     THEN SubSeq(l, 1, Len(l) - 1)
                     ELSE l
        Cut(lf) ==
            IF lf = -1 THEN <<DropCR(s)>>
            ELSE <<DropCR(SubSeq(s, 1, lf))>>
                 \o ScanLines(SubSeq(s, lf + 2, Len(s)))
    IN IF s = <<>> THEN <<>> ELSE Cut(Index(s, <<"LF">>))

NilResult == [nil |-> TRUE]

\* parseCompleteFrame: the non-empty trimmed lines; fewer than five give
\* nil; date, time and sample id are taken in this order when the line at
\* lineIndex has the form; every further line that parses is an item
parseCompleteFrame(frame) ==
    LET Result(date, time, id, items) ==
            IF items = <<>> THEN NilResult
            ELSE [nil |-> FALSE, TestDate |-> date, TestTime |-> time,
                  SampleID |-> id, Items |-> items]
        ItemsFrom(lines, i) ==
            SelectSeq([k \in 1..(Len(lines) - i) |-> parseItemLine(lines[i + k])],
                      LAMBDA it : ~it.nil)
        FromID(lines, date, time, i) ==
            IF i < Len(lines) /\ isValidSampleID(lines[i + 1])
            THEN Result(date, time, lines[i + 1], ItemsFrom(lines, i + 1))
            ELSE Result(date, time, <<>>, ItemsFrom(lines, i))
        FromTime(lines, date, i) ==
            IF i < Len(lines) /\ isValidTimeLine(lines[i + 1])
            THEN FromID(lines, date, lines[i + 1], i + 1)
            ELSE FromID(lines, date, <<>>, i)
        FromDate(lines) ==
            IF Len(lines) < 5 THEN NilResult
            ELSE IF isValidDateLine(lines[1])
            THEN FromTime(lines, timeParse(lines[1]), 1)
            ELSE FromTime(lines, ZeroDate, 0)
        Lines(scanned) ==
            SelectSeq([k \in 1..Len(scanned) |-> TrimSpace(scanned[k])],
                      LAMBDA l : l # <<>>)
    IN FromDate(Lines(ScanLines(frame)))

isPotentialDateLine(data, pos) ==
    LET Dated(line) ==
            IF line[5] = "-" /\ line[8] = "-" THEN TRUE
            ELSE Index(line, <<"-">>) # -1
    IN IF pos < 0 \/ pos + 10 > Len(data) THEN FALSE
       ELSE Dated(SubSeq(data, pos + 1, pos + 10))

\* for i := endPos; i >= 0; i--: the highest i >= 10 that passes
findFrameStart(data, endPos) ==
    LET Last(S) == IF S = {} THEN -1 ELSE CHOOSE i \in S : \A j \in S : j <= i
    IN Last({i \in 0..endPos : i >= 10 /\ isPotentialDateLine(data, i)})

extractAndParseFrame(data) ==
    LET Cut(startPos, endPos) ==
            IF startPos = -1 THEN [result |-> NilResult, remaining |-> data]
            ELSE [result |->
                      parseCompleteFrame(SubSeq(data, startPos + 1, endPos + 4)),
                  remaining |-> SubSeq(data, endPos + 5, Len(data))]
        Find(endPos) ==
            IF endPos = -1 THEN [result |-> NilResult, remaining |-> data]
            ELSE Cut(findFrameStart(data, endPos), endPos)
    IN Find(Index(data, CRLF \o CRLF))

hasPotentialCompleteFrame(data) ==
    IF Len(data) < 20 THEN FALSE
    ELSE IF Index(data, <<"-", "0", "2", "-", "0", "3">>) # -1
    THEN TRUE
    ELSE IF Index(data, <<"-", "0", "1", "-", "1", "5">>) # -1
    THEN TRUE
    \* strings.Count of "\r\n", which cannot overlap itself
    ELSE Cardinality({i \in 0..Len(data) : HasAt(data, i, CRLF)}) >= 8

\* the first line gets its lost first digit back; Split and Join on "\r\n"
\* leave the rest as it is
repairData(data) ==
    IF HasAt(data, 0, <<"0", "2", "6", "-">>) THEN <<"2">> \o data
    ELSE IF HasAt(data, 0, <<"0", "2", "4", "-">>) THEN <<"2">> \o data
    ELSE data

forceParseFrame(data) == parseCompleteFrame(repairData(data))

\* ParseData: the buffer is emptied when the last data is older than
\* frameTimeout; the chunk is appended; a frame that extractAndParseFrame
\* parses leaves what follows it, a forced parse leaves nothing, and
\* otherwise everything stays buffered. No path returns an error
ParseData(buf, data, timedOut) ==
    LET Forced(content, forced) ==
            IF ~forced.nil
            THEN [err |-> "none", rec |-> forced, buffer |-> <<>>]
            ELSE [err |-> "none", rec |-> NilResult, buffer |-> content]
        Extracted(content, r) ==
            IF ~r.result.nil
            THEN [err |-> "none", rec |-> r.result, buffer |-> r.remaining]
            ELSE Forced(content, IF hasPotentialCompleteFrame(content)
                                 THEN forceParseFrame(content)
                                 ELSE NilResult)
        Buffered(content) == Extracted(content, extractAndParseFrame(content))
    IN Buffered((IF timedOut THEN <<>> ELSE buf) \o data)

\* text frames as the analyzer prints them: date, time, sample id, an empty
\* line and the first n item lines of the 10-item strip
StripLines ==
    <<
      <<"G", "L", "U", "TAB", "E9", "98", "B4", "E6", "80", "A7">>,
      <<"B", "I", "L", "TAB", "-">>,
      <<"S", "G", "TAB", "1", ".", "0", "1", "5">>,
      <<"P", "H", "TAB", "6", ".", "0">>,
      <<"K", "E", "T", "TAB", "E9", "98", "B4", "E6", "80", "A7">>,
      <<"B", "L", "D", "TAB", "E9", "98", "B4", "E6", "80", "A7">>,
      <<"P", "R", "O", "TAB", "E9", "98", "B4", "E6", "80", "A7">>,
      <<"U", "R", "O", "TAB", "E6", "AD", "A3", "E5", "B8", "B8">>,
      <<"N", "I", "T", "TAB", "E9", "98", "B4", "E6", "80", "A7">>,
      <<"L", "E", "U", "TAB", "E9", "98", "B4", "E6", "80", "A7">>
    >>
FormatDate(d) ==
    LET TwoDigits(n) ==
            <<DigitChars[(n \div 10) + 1], DigitChars[(n % 10) + 1]>>
    IN TwoDigits(d.Year \div 100) \o TwoDigits(d.Year % 100) \o <<"-">>
       \o TwoDigits(d.Month) \o <<"-">> \o TwoDigits(d.Day)
RECURSIVE ItemLines(_)
ItemLines(n) ==
    IF n = 0 THEN <<>> ELSE ItemLines(n - 1) \o StripLines[n] \o CRLF
TextFrame(d, t, id, n) ==
    FormatDate(d) \o CRLF \o t \o CRLF \o id \o CRLF \o CRLF \o ItemLines(n)
TextInputs ==
    {[kind |-> "text", date |-> d, time |-> t, id |-> id, n |-> n] :
        d \in {[Year |-> 2024, Month |-> 1, Day |-> 15],
               [Year |-> 2026, Month |-> 2, Day |-> 3],
               [Year |-> 2024, Month |-> 3, Day |-> 7]},
        t \in {<<"1", "4", ":", "3", "0", ":", "2", "5">>,
               <<"0", "9", ":", "0", "5", ":", "0", "0">>},
        id \in {<<"0", "0", "1">>, <<"7">>},
        n \in 1..Len(StripLines)}

\* NewParser, then the chunk arrives
InitText ==
    /\ scen \in TextInputs
    /\ pframe = TextFrame(scen.date, scen.time, scen.id, scen.n)
    /\ buffer = <<>>
    /\ presult = [err |-> "pending", rec |-> NilResult]
    /\ ppc = "text"
    /\ chunks = <<>>
    /\ frameChan = <<>>
    /\ NoClient
    /\ NoPort

\* parser.ParseData(chunk), before or after frameTimeout has passed
TextParseData ==
    /\ ppc = "text"
    /\ \E timedOut \in BOOLEAN :
          LET Returns(r) == /\ presult' = [err |-> r.err, rec |-> r.rec]
                            /\ buffer' = r.buffer
          IN Returns(ParseData(buffer, pframe, timedOut))
    /\ ppc' = "decoded"
    /\ UNCHANGED <<pframe, scen, chunks, frameChan>>
    /\ UNCHANGED mqttVars
    /\ UNCHANGED serialVars

NextText == TextParseData

SpecText == InitText /\ [][NextText]_vars

\* C31: one ParseData call on a chunk holding one complete text frame gives
\* no error and a result with the frame's sample id, date and time and one
\* item per item line, and the buffer does not keep the frame
C31_TextFrameDecoded ==
    ppc = "decoded" =>
        /\ presult.err = "none"
        /\ ~presult.rec.nil
        /\ presult.rec.SampleID = scen.id
        /\ presult.rec.TestDate = scen.date
        /\ presult.rec.TestTime = scen.time
        /\ Len(presult.rec.Items) = scen.n
        /\ buffer = <<>>

====
